---- MODULE Spec2Model ----
(***************************************************************************)
(* Model of the LMS schema migration engine (Migration.cpp) and of the     *)
(* media library scanner (Database.cpp).                                   *)
(***************************************************************************)
EXTENDS Integers, Sequences, FiniteSets, TLC

(***************************************************************************)
(* Bounds of the model                                                     *)
(***************************************************************************)
\* rows put in every populated table of the initial store: 0..MaxRows
MaxRows == 1
\* how many times doDbMigration is called in one behaviour
MaxRuns == 2
\* how many statements may fail for an external reason (I/O error, busy store)
MaxFaults == 1
\* versions above the target that a store written by a newer binary may have
MaxNewer == 1
\* last write times of files: 1..MaxTime
MaxTime == 2
\* how many times refresh is called in one behaviour
MaxScans == 3
\* how many times the filesystem changes in one behaviour
MaxChanges == 1
\* length of the list of watched directories
MaxDirs == 2

(***************************************************************************)
(* Program constants                                                       *)
(***************************************************************************)
\* Migration.hpp: the version this binary handles.  The last registered step
\* (version == 31) persists 32.
LMS_DATABASE_VERSION == 32
\* Migration.hpp: the version of a VersionInfo created by getOrCreate
NewVersionInfoVersion == 0
\* the name bound in "DELETE from tracklist WHERE name = ?"
PlayedTracksName == 0
\* SQL NULL
NULL == -1

Range(s) == {s[i] : i \in DOMAIN s}

(***************************************************************************)
(* The relational store: tables of rows, a row maps column names to values *)
(***************************************************************************)
TableNames ==
    {"auth_token", "similarity_settings", "similarity_settings_feature",
     "scan_settings", "track_bookmark", "user", "user_backup", "track",
     "track_backup", "release", "release_backup", "subsonic_settings",
     "tracklist", "tracklist_entry", "user_artist_starred",
     "user_release_starred", "user_track_starred", "starred_artist",
     "starred_release", "starred_track", "listen", "artist"}

NoTable == [exists |-> FALSE, cols |-> <<>>, rows |-> {}]

NewTable(cols) == [exists |-> TRUE, cols |-> cols, rows |-> {}]

\* the foreign keys declared "on delete cascade" by the CREATE TABLE statements
ForeignKeys ==
    {[child |-> "track_bookmark", col |-> "track_id", parent |-> "track"],
     [child |-> "track_bookmark", col |-> "user_id", parent |-> "user"],
     [child |-> "track", col |-> "release_id", parent |-> "release"],
     [child |-> "starred_artist", col |-> "artist_id", parent |-> "artist"],
     [child |-> "starred_artist", col |-> "user_id", parent |-> "user"],
     [child |-> "starred_release", col |-> "release_id", parent |-> "release"],
     [child |-> "starred_release", col |-> "user_id", parent |-> "user"],
     [child |-> "starred_track", col |-> "track_id", parent |-> "track"],
     [child |-> "starred_track", col |-> "user_id", parent |-> "user"],
     [child |-> "listen", col |-> "track_id", parent |-> "track"],
     [child |-> "listen", col |-> "user_id", parent |-> "user"]}

(***************************************************************************)
(* SQL statements of the migration steps                                   *)
(***************************************************************************)
Stmt(op, t, t2, cols, exprs, val, flag) ==
    [op |-> op, t |-> t, t2 |-> t2, cols |-> cols, exprs |-> exprs,
     val |-> val, flag |-> flag]

Col(c) == [isCol |-> TRUE, col |-> c, const |-> 0]
Const(v) == [isCol |-> FALSE, col |-> "", const |-> v]

DeleteFrom(t) == Stmt("delete", t, "", <<>>, <<>>, 0, FALSE)
DeleteWhere(t, c, v) == Stmt("deleteWhere", t, "", <<c>>, <<>>, v, FALSE)
DropTable(t) == Stmt("drop", t, "", <<>>, <<>>, 0, FALSE)
AddColumn(t, c, default) == Stmt("addColumn", t, "", <<c>>, <<>>, default, FALSE)
CreateTable(t, cols) == Stmt("create", t, "", cols, <<>>, 0, FALSE)
CreateTableIfNotExists(t, cols) == Stmt("create", t, "", cols, <<>>, 0, TRUE)
InsertSelect(dst, exprs, src) == Stmt("insertSelect", dst, src, <<>>, exprs, 0, FALSE)
RenameTable(t, t2) == Stmt("rename", t, t2, <<>>, <<>>, 0, FALSE)
IncScanVersion == Stmt("incScanVersion", "", "", <<>>, <<>>, 0, FALSE)
AddAudioFileExtension(e) == Stmt("addExtension", e, "", <<>>, <<>>, 0, FALSE)

Cols(names) == [i \in DOMAIN names |-> Col(names[i])]

(***************************************************************************)
(* Execution of one statement on a store d (tables, scanVersion,           *)
(* extensions) with the foreign_keys pragma fk.  The result is             *)
(* [ok, db]: ok = FALSE is the exception the statement throws.             *)
(***************************************************************************)
Failed(d) == [ok |-> FALSE, db |-> d]
Done(d) == [ok |-> TRUE, db |-> d]

WithTable(d, t, tab) == [d EXCEPT !.tables[t] = tab]

\* one round of "on delete cascade": to the rows gone so far (gone[c], per
\* table) are added the rows that reference one of them through a foreign
\* key; a NULL key references nothing, and so does the id of no row
CascadeRound(tables, gone) ==
    [c \in TableNames |->
        gone[c] \cup
            {r \in tables[c].rows :
                \E k \in ForeignKeys :
                    /\ k.child = c
                    /\ k.col \in DOMAIN r
                    /\ r[k.col] # NULL
                    /\ \E p \in gone[k.parent] :
                          "id" \in DOMAIN p /\ p["id"] = r[k.col]}]

RECURSIVE CascadeClosure(_, _)
\* the cascade goes on through the children of the children
CascadeClosure(tables, gone) ==
    LET more == CascadeRound(tables, gone)
    IN  IF more = gone THEN gone ELSE CascadeClosure(tables, more)

\* the tables after the given rows of t were deleted while foreign keys are
\* enforced
CascadeDeleteRows(tables, t, rows) ==
    LET gone == CascadeClosure(tables,
                    [c \in TableNames |-> IF c = t THEN rows ELSE {}])
    IN  [c \in TableNames |->
            IF tables[c].exists
            THEN [tables[c] EXCEPT !.rows = @ \ gone[c]]
            ELSE tables[c]]

\* the tables after every row of t was deleted while foreign keys are
\* enforced: DELETE FROM t, and the implicit delete of DROP TABLE t
CascadeDelete(tables, t) == CascadeDeleteRows(tables, t, tables[t].rows)

EvalExpr(e, row) == IF e.isCol THEN row[e.col] ELSE e.const

ExecDelete(st, d, fk) ==
    IF ~d.tables[st.t].exists THEN Failed(d)
    ELSE LET tabs == IF fk THEN CascadeDelete(d.tables, st.t) ELSE d.tables
         IN  Done([d EXCEPT !.tables = [tabs EXCEPT ![st.t].rows = {}]])

ExecDeleteWhere(st, d, fk) ==
    IF ~d.tables[st.t].exists \/ st.cols[1] \notin Range(d.tables[st.t].cols)
    THEN Failed(d)
    ELSE LET del == {r \in d.tables[st.t].rows : r[st.cols[1]] = st.val}
         IN  IF fk
             THEN Done([d EXCEPT !.tables = CascadeDeleteRows(@, st.t, del)])
             ELSE Done([d EXCEPT !.tables[st.t].rows = @ \ del])

\* a DROP TABLE that cascades whatever the pragma says
ExecDropCascades(st, d, fk) ==
    IF ~d.tables[st.t].exists THEN Failed(d)
    ELSE Done([d EXCEPT !.tables =
                  [CascadeDelete(d.tables, st.t) EXCEPT ![st.t] = NoTable]])

\* DROP TABLE deletes the rows first (cascading when foreign keys are on)
ExecDrop(st, d, fk) ==
    IF ~d.tables[st.t].exists THEN Failed(d)
    ELSE LET tabs == IF fk THEN CascadeDelete(d.tables, st.t) ELSE d.tables
         IN  Done([d EXCEPT !.tables = [tabs EXCEPT ![st.t] = NoTable]])

ExecAddColumn(st, d, fk) ==
    LET tab == d.tables[st.t]
        c == st.cols[1]
    IN  IF ~tab.exists \/ c \in Range(tab.cols) THEN Failed(d)
        ELSE Done(WithTable(d, st.t,
                [tab EXCEPT !.cols = Append(@, c),
                            !.rows = {[k \in DOMAIN r \cup {c} |->
                                          IF k = c THEN st.val ELSE r[k]]
                                      : r \in @}]))

ExecCreate(st, d, fk) ==
    IF d.tables[st.t].exists
    THEN IF st.flag THEN Done(d) ELSE Failed(d)
    ELSE Done(WithTable(d, st.t, NewTable(st.cols)))

\* INSERT INTO t SELECT exprs FROM t2: the values are assigned by position
ExecInsertSelect(st, d, fk) ==
    LET dst == d.tables[st.t]
        src == d.tables[st.t2]
    IN  IF ~dst.exists \/ ~src.exists \/ Len(st.exprs) # Len(dst.cols)
           \/ \E i \in DOMAIN st.exprs :
                 st.exprs[i].isCol /\ st.exprs[i].col \notin Range(src.cols)
        THEN Failed(d)
        ELSE LET row(r) == [c \in Range(dst.cols) |->
                            LET i == CHOOSE j \in DOMAIN dst.cols : dst.cols[j] = c
                            IN  EvalExpr(st.exprs[i], r)]
             IN  \* "id" is the primary key: a selected row whose id a row of
                 \* the destination or another selected row has already is
                 \* refused, identical or not
                 IF \/ \E r \in src.rows, o \in dst.rows :
                          row(r)["id"] = o["id"]
                    \/ \E r1, r2 \in src.rows :
                          r1 # r2 /\ row(r1)["id"] = row(r2)["id"]
                 THEN Failed(d)
                 ELSE Done(WithTable(d, st.t,
                        [dst EXCEPT !.rows = @ \cup {row(r) : r \in src.rows}]))

ExecRename(st, d, fk) ==
    IF ~d.tables[st.t].exists \/ d.tables[st.t2].exists THEN Failed(d)
    ELSE Done([d EXCEPT !.tables[st.t2] = d.tables[st.t],
                        !.tables[st.t] = NoTable])

\* ScanSettings::incScanVersion
incScanVersion(d) == [d EXCEPT !.scanVersion = @ + 1]

\* ScanSettings::addAudioFileExtension
addAudioFileExtension(d, e) == [d EXCEPT !.extensions = @ \cup {e}]

Exec(st, d, fk) ==
    CASE st.op = "delete" -> ExecDelete(st, d, fk)
      [] st.op = "deleteWhere" -> ExecDeleteWhere(st, d, fk)
      [] st.op = "drop" -> ExecDrop(st, d, fk)
      [] st.op = "addColumn" -> ExecAddColumn(st, d, fk)
      [] st.op = "create" -> ExecCreate(st, d, fk)
      [] st.op = "insertSelect" -> ExecInsertSelect(st, d, fk)
      [] st.op = "rename" -> ExecRename(st, d, fk)
      [] st.op = "incScanVersion" -> Done(incScanVersion(d))
      [] st.op = "addExtension" -> Done(addAudioFileExtension(d, st.t))

(***************************************************************************)
(* The migration steps, keyed by the version they start from               *)
(***************************************************************************)
TrackBookmarkCols == <<"id", "version", "offset", "comment", "track_id", "user_id">>

ReleaseBackupCols == <<"id", "version", "name", "mbid">>

SubsonicSettingsCols == <<"id", "version", "api_enabled", "artist_list_mode">>

UserBackupCols ==
    <<"id", "version", "type", "login_name", "password_salt", "password_hash",
      "last_login", "subsonic_transcode_enable", "subsonic_transcode_format",
      "subsonic_transcode_bitrate", "subsonic_artist_list_mode", "ui_theme",
      "cur_playing_track_pos", "repeat_all", "radio">>

TrackBackupCols ==
    <<"id", "version", "scan_version", "track_number", "disc_number", "name",
      "duration", "date", "original_date", "file_path", "file_last_write",
      "file_added", "has_cover", "mbid", "copyright", "copyright_url",
      "release_id", "total_disc", "total_track", "track_replay_gain",
      "release_replay_gain", "disc_subtitle", "recording_mbid">>

StarredArtistCols == <<"id", "version", "scrobbler", "date_time", "artist_id", "user_id">>

StarredReleaseCols == <<"id", "version", "scrobbler", "date_time", "release_id", "user_id">>

StarredTrackCols == <<"id", "version", "scrobbler", "date_time", "track_id", "user_id">>

ListenCols ==
    <<"id", "version", "date_time", "scrobbler", "scrobbling_state",
      "track_id", "user_id">>

\* the expressions of the INSERT ... SELECT of step 19: four columns are
\* filled with the User defaults
UserSelect19 ==
    Cols(<<"id", "version", "type", "login_name", "password_salt",
           "password_hash", "last_login">>)
    \o <<Const(0), Const(0), Const(128000), Const(0)>>
    \o Cols(<<"ui_theme", "cur_playing_track_pos", "repeat_all", "radio">>)

\* the expressions of the INSERT ... SELECT of step 30: the two dates are
\* filled with "1900-01-01"
TrackSelect30 ==
    Cols(<<"id", "version", "scan_version", "track_number", "disc_number",
           "name", "duration">>)
    \o <<Const(19000101), Const(19000101)>>
    \o Cols(<<"file_path", "file_last_write", "file_added", "has_cover",
              "mbid", "copyright", "copyright_url", "release_id", "total_disc",
              "total_track", "track_replay_gain", "release_replay_gain",
              "disc_subtitle", "recording_mbid">>)

\* the dispatch without the last branch
RegisteredGap == 5..30

\* the versions doDbMigration has a branch for
Registered == 5..31

\* else if (version == 5)
Step5 ==
    <<DeleteFrom("auth_token")>>

\* else if (version == 6)
Step6 ==
    <<IncScanVersion>>

\* else if (version == 7)
Step7 ==
    <<DropTable("similarity_settings"),
      DropTable("similarity_settings_feature"),
      AddColumn("scan_settings", "similarity_engine_type", 0)>>

\* else if (version == 8)
Step8 ==
    <<IncScanVersion>>

\* the branch for version 9 without its CREATE TABLE
Step9NoTable ==
    <<IncScanVersion>>

\* else if (version == 9)
Step9 ==
    <<CreateTableIfNotExists("track_bookmark", TrackBookmarkCols)>>

\* else if (version == 10)
Step10 ==
    <<AddAudioFileExtension(".m4b"), AddAudioFileExtension(".alac")>>

\* else if (version == 11..14)
Step11To14 ==
    <<IncScanVersion>>

\* else if (version == 15)
Step15 ==
    <<AddColumn("user", "ui_theme", 0)>>

\* else if (version == 16)
Step16 ==
    <<AddColumn("track", "total_disc", 0),
      AddColumn("track", "total_track", 0), IncScanVersion>>

\* else if (version == 17)
Step17 ==
    <<CreateTable("release_backup", ReleaseBackupCols),
      InsertSelect("release_backup", Cols(<<"id", "version", "name", "mbid">>),
      "release"), DropTable("release"),
      RenameTable("release_backup", "release"), IncScanVersion>>

\* else if (version == 18)
Step18 ==
    <<CreateTableIfNotExists("subsonic_settings", SubsonicSettingsCols)>>

\* else if (version == 19)
Step19 ==
    <<CreateTable("user_backup", UserBackupCols),
      InsertSelect("user_backup", UserSelect19, "user"), DropTable("user"),
      RenameTable("user_backup", "user")>>

\* else if (version == 20)
Step20 ==
    <<DropTable("subsonic_settings")>>

\* else if (version == 21)
Step21 ==
    <<AddColumn("track", "track_replay_gain", NULL),
      AddColumn("track", "release_replay_gain", NULL), IncScanVersion>>

\* else if (version == 22)
Step22 ==
    <<AddColumn("track", "disc_subtitle", 0), IncScanVersion>>

\* else if (version == 23)
Step23 ==
    <<IncScanVersion>>

\* else if (version == 24)
Step24 ==
    <<AddColumn("user", "auth_mode", 0)>>

\* else if (version == 25..27)
Step25To27 ==
    <<IncScanVersion>>

\* else if (version == 28)
Step28 ==
    <<CreateTable("user_backup", UserBackupCols),
      InsertSelect("user_backup", Cols(UserBackupCols), "user"),
      DropTable("user"), RenameTable("user_backup", "user")>>

\* else if (version == 29)
Step29 ==
    <<AddColumn("tracklist_entry", "date_time", NULL),
      AddColumn("user", "listenbrainz_token", NULL),
      AddColumn("user", "scrobbler", 0),
      AddColumn("track", "recording_mbid", NULL),
      DeleteWhere("tracklist", "name", PlayedTracksName), IncScanVersion>>

\* the step of version 30 without its last line
Step30Silent ==
    <<CreateTable("track_backup", TrackBackupCols),
      InsertSelect("track_backup", TrackSelect30, "track"),
      DropTable("track"), RenameTable("track_backup", "track")>>

\* else if (version == 30)
Step30 ==
    <<CreateTable("track_backup", TrackBackupCols),
      InsertSelect("track_backup", TrackSelect30, "track"),
      DropTable("track"), RenameTable("track_backup", "track"),
      IncScanVersion>>

\* else if (version == 31)
Step31 ==
    <<DropTable("user_artist_starred"), DropTable("user_release_starred"),
      DropTable("user_track_starred"),
      CreateTableIfNotExists("starred_artist", StarredArtistCols),
      CreateTableIfNotExists("starred_release", StarredReleaseCols),
      CreateTableIfNotExists("starred_track", StarredTrackCols),
      CreateTableIfNotExists("listen", ListenCols)>>

\* the statements of the branch "version == v", in order
Steps(v) ==
    CASE v = 5 -> Step5
      [] v = 6 -> Step6
      [] v = 7 -> Step7
      [] v = 8 -> Step8
      [] v = 9 -> Step9
      [] v = 10 -> Step10
      [] v \in 11..14 -> Step11To14
      [] v = 15 -> Step15
      [] v = 16 -> Step16
      [] v = 17 -> Step17
      [] v = 18 -> Step18
      [] v = 19 -> Step19
      [] v = 20 -> Step20
      [] v = 21 -> Step21
      [] v = 22 -> Step22
      [] v = 23 -> Step23
      [] v = 24 -> Step24
      [] v \in 25..27 -> Step25To27
      [] v = 28 -> Step28
      [] v = 29 -> Step29
      [] v = 30 -> Step30
      [] v = 31 -> Step31
      [] OTHER -> <<>>

(***************************************************************************)
(* Stores the program can be started on                                    *)
(***************************************************************************)
UserBaseCols ==
    <<"id", "version", "type", "login_name", "password_salt", "password_hash",
      "last_login", "cur_playing_track_pos", "repeat_all", "radio">>

TrackBaseCols ==
    <<"id", "version", "scan_version", "track_number", "disc_number", "name",
      "duration", "year", "original_year", "file_path", "file_last_write",
      "file_added", "has_cover", "mbid", "copyright", "copyright_url",
      "release_id">>

If(cond, cols) == IF cond THEN cols ELSE <<>>

\* the tables the steps presuppose in a store of version 5, with the columns
\* the statements name
BaseTables ==
    [t \in TableNames |->
        CASE t \in {"auth_token", "similarity_settings",
                    "similarity_settings_feature", "scan_settings",
                    "tracklist_entry"}
                -> NewTable(<<"id", "version">>)
          [] t \in {"tracklist", "artist"} -> NewTable(<<"id", "version", "name">>)
          [] t = "user"
                -> NewTable(UserBaseCols)
          [] t = "track"
                -> NewTable(TrackBaseCols)
          [] t = "release"
                -> NewTable(<<"id", "version", "name", "mbid", "total_disc",
                              "total_track">>)
          [] t = "user_artist_starred" -> NewTable(<<"user_id", "artist_id">>)
          [] t = "user_release_starred" -> NewTable(<<"user_id", "release_id">>)
          [] t = "user_track_starred" -> NewTable(<<"user_id", "track_id">>)
          [] OTHER -> NoTable]

\* the tables of a store of version v: what the steps below v leave of the
\* base tables
LayoutAt(v) ==
    [t \in TableNames |->
        CASE t \in {"similarity_settings", "similarity_settings_feature"}
                -> IF v <= 7 THEN BaseTables[t] ELSE NoTable
          [] t = "scan_settings"
                -> NewTable(<<"id", "version">>
                            \o If(v > 7, <<"similarity_engine_type">>))
          [] t = "track_bookmark"
                -> IF v > 9 THEN NewTable(TrackBookmarkCols) ELSE NoTable
          [] t = "user"
                -> NewTable(
                     IF v <= 19
                     THEN UserBaseCols \o If(v > 15, <<"ui_theme">>)
                     ELSE UserBackupCols
                          \o If(v \in 25..28, <<"auth_mode">>)
                          \o If(v > 29, <<"listenbrainz_token", "scrobbler">>))
          [] t = "track"
                -> NewTable(
                     IF v <= 30
                     THEN TrackBaseCols
                          \o If(v > 16, <<"total_disc", "total_track">>)
                          \o If(v > 21, <<"track_replay_gain", "release_replay_gain">>)
                          \o If(v > 22, <<"disc_subtitle">>)
                          \o If(v > 29, <<"recording_mbid">>)
                     ELSE TrackBackupCols)
          [] t = "release"
                -> IF v <= 17 THEN BaseTables[t] ELSE NewTable(ReleaseBackupCols)
          [] t = "subsonic_settings"
                -> IF v \in 19..20 THEN NewTable(SubsonicSettingsCols) ELSE NoTable
          [] t = "tracklist_entry"
                -> NewTable(<<"id", "version">> \o If(v > 29, <<"date_time">>))
          [] t \in {"user_artist_starred", "user_release_starred",
                    "user_track_starred"}
                -> IF v <= 31 THEN BaseTables[t] ELSE NoTable
          [] t = "starred_artist"
                -> IF v > 31 THEN NewTable(StarredArtistCols) ELSE NoTable
          [] t = "starred_release"
                -> IF v > 31 THEN NewTable(StarredReleaseCols) ELSE NoTable
          [] t = "starred_track"
                -> IF v > 31 THEN NewTable(StarredTrackCols) ELSE NoTable
          [] t = "listen"
                -> IF v > 31 THEN NewTable(ListenCols) ELSE NoTable
          [] OTHER -> BaseTables[t]]

\* the store layout of version v, without rows
SchemaAt(v) ==
    [tables |-> LayoutAt(v),
     scanVersion |-> 0,
     extensions |-> {".mp3"} \cup (IF v > 10 THEN {".m4b", ".alac"} ELSE {})]

ColIndex(cols, c) == CHOOSE i \in DOMAIN cols : cols[i] = c

\* the value of column c in the i-th row: keys and references hold i, the
\* first tracklist is the played-tracks list, other values are distinct
InitValue(t, cols, c, i) ==
    IF c = "id" \/ c \in {k.col : k \in ForeignKeys} \/ c \in {"artist_id"}
    THEN i
    ELSE IF t = "tracklist" /\ c = "name" /\ i = 1 THEN PlayedTracksName
    ELSE 100 * i + ColIndex(cols, c)

\* n rows in every table of the layout
Populate(d, n) ==
    [d EXCEPT !.tables =
        [t \in TableNames |->
            IF d.tables[t].exists
            THEN [d.tables[t] EXCEPT !.rows =
                    {[c \in Range(d.tables[t].cols) |->
                        InitValue(t, d.tables[t].cols, c, i)] : i \in 1..n}]
            ELSE d.tables[t]]]

(***************************************************************************)
(* State                                                                   *)
(***************************************************************************)
VARIABLES
    db,              \* the committed store: tables, scanVersion, extensions, vinfo
    versionReadable, \* whether the version record can be read at all
    tx,              \* the store as seen inside the open unique transaction
    txOpen,          \* whether doDbMigration has a transaction open
    fk,              \* PRAGMA foreign_keys
    lock,            \* holder of the store lock: "free", "migration", "other"
    pc,              \* position of doDbMigration
    version,         \* doDbMigration's local variable
    stmt,            \* index of the next statement of the current step
    msg,             \* what the last run ended with
    runs,            \* calls of doDbMigration so far
    faults,          \* statements failed for an external reason so far
    startDb,         \* history: the committed store when the run started
    stepDb,          \* history: the committed store when the iteration started
    applied,         \* history: keys of the steps committed in this run
    committed,       \* history: versions persisted in this run
    reads,           \* history: version reads of this run
    failedAt         \* history: key of the step that threw, until it commits

migVars ==
    <<db, versionReadable, tx, txOpen, fk, lock, pc, version, stmt, msg, runs,
      faults, startDb, stepDb, applied, committed, reads, failedAt>>

VARIABLES
    fs,            \* the filesystem: path -> entry
    directories,   \* Database::_directories
    tracks,        \* the Track rows
    artists,       \* the Artist rows, in order of creation: names
    releases,      \* the Release rows
    genres,        \* the Genre rows
    nextTrackId,   \* the id the next Track row gets
    paths,         \* the Path rows
    videos,        \* the Video rows
    scanPc,        \* "idle" or "walk": position of refresh
    dirsLeft,      \* watched directories refresh has still to walk
    stack,         \* the directories being walked: [dir, pending]
    log,           \* what the last processAudioFile call reported
    scans,         \* refresh calls so far
    changes,       \* filesystem changes so far
    seen           \* history: path -> the entry processAudioFile last met

scanVars ==
    <<fs, directories, tracks, artists, releases, genres, nextTrackId, paths,
      videos, scanPc, dirsLeft, stack, log, scans, changes, seen>>

vars == <<migVars, scanVars>>

outdatedMsg == "Outdated database, please rebuild it (delete the .db file and restart)"

upgradeMsg == "Server binary outdated, please upgrade it to handle this database"

stepFailedMsg == "exception thrown by a migration step"

Running == pc \in {"loop", "read", "step"}

\* a store of version v with n rows per table; present = FALSE is a store
\* without version record (its tables are those of the current layout)
InitDb(v, n, present) ==
    LET d == Populate(SchemaAt(IF present THEN v ELSE LMS_DATABASE_VERSION), n)
    IN  [tables |-> d.tables, scanVersion |-> d.scanVersion,
         extensions |-> d.extensions,
         vinfo |-> [present |-> present, version |-> IF present THEN v ELSE 0]]

\* the engine before doDbMigration is called, on a store of a version in
\* Versions with a number of rows in Rows
MigInitOn(Versions, Rows, Presents, Readables) ==
    /\ \E v \in Versions, n \in Rows, present \in Presents :
            /\ present \/ (v = 0 /\ n = 0)
            /\ db = InitDb(v, n, present)
    /\ versionReadable \in Readables
    /\ tx = db
    /\ txOpen = FALSE
    /\ fk = TRUE
    /\ lock = "free"
    /\ pc = "idle"
    /\ version = 0
    /\ stmt = 0
    /\ msg = "none"
    /\ runs = 0
    /\ faults = 0
    /\ startDb = db
    /\ stepDb = db
    /\ applied = <<>>
    /\ committed = <<>>
    /\ reads = 0
    /\ failedAt = 0

MigInit ==
    MigInitOn(0..(LMS_DATABASE_VERSION + MaxNewer), 0..MaxRows, BOOLEAN, BOOLEAN)

\* the engine not called, its store left out
MigQuiet ==
    /\ db = [vinfo |-> [present |-> TRUE, version |-> LMS_DATABASE_VERSION],
             scanVersion |-> 0]
    /\ versionReadable = TRUE
    /\ tx = db
    /\ txOpen = FALSE
    /\ fk = TRUE
    /\ lock = "free"
    /\ pc = "idle"
    /\ version = 0
    /\ stmt = 0
    /\ msg = "none"
    /\ runs = 0
    /\ faults = 0
    /\ startDb = db
    /\ stepDb = db
    /\ applied = <<>>
    /\ committed = <<>>
    /\ reads = 0
    /\ failedAt = 0

(***************************************************************************)
(* doDbMigration                                                           *)
(***************************************************************************)
\* a getOrCreate that adds a record whether or not there is one
getOrCreateAlways(d) ==
    [d EXCEPT !.vinfo = [present |-> TRUE, version |-> NewVersionInfoVersion]]

\* VersionInfo::getOrCreate: the record, added when there is none
getOrCreate(d) ==
    IF d.vinfo.present THEN d
    ELSE [d EXCEPT !.vinfo = [present |-> TRUE, version |-> NewVersionInfoVersion]]

\* version += 2
NextVersionSkips(v) == v + 2

\* ++version
NextVersion(v) == v + 1

\* VersionInfo::get(session).modify()->setVersion(++version)
setVersion(d, v) == [d EXCEPT !.vinfo.version = NextVersion(v)]

\* a transaction object that commits whatever destroys it
RollbackKeeps(stored, working) == working

\* the store after the transaction object is destroyed by an exception
Rollback(stored, working) == stored

\* the store after the transaction object is destroyed at the end of its scope
Commit(stored, working) == working

\* a destructor that leaves the pragma as it is
RestoreForeignKeysNot(f) == f

\* ~ScopedNoForeignKeys: PRAGMA foreign_keys=ON
RestoreForeignKeys(f) == TRUE

\* the two messages exchanged
UnknownVersionMsgSwapped(v) ==
    IF LMS_DATABASE_VERSION > v THEN upgradeMsg ELSE outdatedMsg

\* the message of the LmsException thrown for a version without step
UnknownVersionMsg(v) ==
    IF LMS_DATABASE_VERSION > v THEN outdatedMsg ELSE upgradeMsg

\* a transaction that does not take the store lock
AcquireLockNot(l) == l

\* the store lock once createUniqueTransaction has returned
AcquireLock(l) == "migration"

\* the store lock after the unique transaction is destroyed
ReleaseLock(l) == "free"

\* an exception leaves the loop body: uniqueTransaction, declared in the
\* body, is destroyed first; the transaction is rolled back and the lock
\* released.  noPragmaKeys, declared before the loop, is destroyed after it
\* (ScopedNoForeignKeysEnd)
Throw(m) ==
    /\ db' = Rollback(db, tx)
    /\ tx' = db'
    /\ txOpen' = FALSE
    /\ lock' = ReleaseLock(lock)
    /\ fk' = fk
    /\ pc' = "unwinding"
    /\ msg' = m

\* doDbMigration is called: ScopedNoForeignKeys noPragmaKeys
ScopedNoForeignKeys ==
    /\ UNCHANGED scanVars
    /\ pc \in {"idle", "returned", "threw"}
    /\ runs < MaxRuns
    /\ runs' = runs + 1
    /\ fk' = FALSE
    /\ pc' = "loop"
    /\ msg' = "none"
    /\ startDb' = db
    /\ stepDb' = db
    /\ applied' = <<>>
    /\ committed' = <<>>
    /\ reads' = 0
    /\ version' = 0
    /\ stmt' = 0
    /\ UNCHANGED <<db, versionReadable, tx, txOpen, lock, faults,
                   failedAt>>

\* session.createUniqueTransaction(): waits for the store lock
createUniqueTransaction ==
    /\ UNCHANGED scanVars
    /\ pc = "loop"
    /\ lock = "free"
    /\ lock' = AcquireLock(lock)
    /\ tx' = db
    /\ txOpen' = TRUE
    /\ stepDb' = db
    /\ pc' = "read"
    /\ UNCHANGED <<db, versionReadable, fk, version, stmt, msg, runs, faults,
                   startDb, applied, committed, reads,
                   failedAt>>

\* version = VersionInfo::getOrCreate(session)->getVersion() fails
GetVersionThrows ==
    /\ UNCHANGED scanVars
    /\ pc = "read"
    /\ ~versionReadable
    /\ Throw(outdatedMsg)
    /\ reads' = reads + 1
    /\ UNCHANGED <<versionReadable, version, stmt, runs, faults, startDb,
                   stepDb, applied, committed,
                   failedAt>>

\* the version is read and equals LMS_DATABASE_VERSION: return; the
\* transaction leaves its scope first (commit, lock released)
UpToDate ==
    /\ UNCHANGED scanVars
    /\ pc = "read"
    /\ versionReadable
    /\ getOrCreate(tx).vinfo.version = LMS_DATABASE_VERSION
    /\ version' = getOrCreate(tx).vinfo.version
    /\ db' = Commit(db, getOrCreate(tx))
    /\ tx' = db'
    /\ txOpen' = FALSE
    /\ lock' = ReleaseLock(lock)
    /\ fk' = fk
    /\ pc' = "returning"
    /\ reads' = reads + 1
    /\ UNCHANGED <<versionReadable, stmt, msg, runs, faults, startDb, stepDb,
                   applied, committed,
                   failedAt>>

\* the version is read and differs from LMS_DATABASE_VERSION: dispatch
GetVersion ==
    /\ UNCHANGED scanVars
    /\ pc = "read"
    /\ versionReadable
    /\ getOrCreate(tx).vinfo.version # LMS_DATABASE_VERSION
    /\ version' = getOrCreate(tx).vinfo.version
    /\ tx' = getOrCreate(tx)
    /\ stmt' = 1
    /\ pc' = "step"
    /\ reads' = reads + 1
    /\ UNCHANGED <<db, versionReadable, txOpen, fk, lock, msg, runs, faults,
                   startDb, stepDb, applied, committed,
                   failedAt>>

\* the final else branch: no step for this version
UnknownVersion ==
    /\ UNCHANGED scanVars
    /\ pc = "step"
    /\ version \notin Registered
    /\ Throw(UnknownVersionMsg(version))
    /\ UNCHANGED <<versionReadable, version, stmt, runs, faults, startDb,
                   stepDb, applied, committed, reads,
                   failedAt>>

\* the next statement of the step runs
ExecuteStatement ==
    /\ UNCHANGED scanVars
    /\ pc = "step"
    /\ version \in Registered
    /\ stmt <= Len(Steps(version))
    /\ LET r == Exec(Steps(version)[stmt], tx, fk)
       IN  IF r.ok
           THEN /\ tx' = r.db
                /\ stmt' = stmt + 1
                /\ UNCHANGED <<db, txOpen, fk, lock, pc, msg, failedAt>>
           ELSE /\ Throw(stepFailedMsg)
                /\ failedAt' = version
                /\ UNCHANGED stmt
    /\ UNCHANGED <<versionReadable, version, runs, faults, startDb, stepDb,
                   applied, committed, reads>>

\* the next statement of the step fails for a reason outside the store's
\* contents (I/O error, busy store)
StatementThrows ==
    /\ UNCHANGED scanVars
    /\ pc = "step"
    /\ version \in Registered
    /\ stmt <= Len(Steps(version))
    /\ faults < MaxFaults
    /\ faults' = faults + 1
    /\ Throw(stepFailedMsg)
    /\ failedAt' = version
    /\ UNCHANGED <<versionReadable, version, stmt, runs, startDb, stepDb,
                   applied, committed, reads>>

\* setVersion(++version), then the transaction leaves its scope: commit
SetVersionAndCommit ==
    /\ UNCHANGED scanVars
    /\ pc = "step"
    /\ version \in Registered
    /\ stmt > Len(Steps(version))
    /\ db' = Commit(db, setVersion(tx, version))
    /\ tx' = db'
    /\ txOpen' = FALSE
    /\ lock' = ReleaseLock(lock)
    /\ version' = NextVersion(version)
    /\ applied' = Append(applied, version)
    /\ committed' = Append(committed, db'.vinfo.version)
    /\ pc' = "loop"
    /\ stmt' = 0
    /\ failedAt' = 0
    /\ UNCHANGED <<versionReadable, fk, msg, runs, faults, startDb, stepDb,
                   reads>>

\* ~ScopedNoForeignKeys: PRAGMA foreign_keys=ON, the last thing doDbMigration
\* does on a return and on an exception alike, after the lock was released
ScopedNoForeignKeysEnd ==
    /\ UNCHANGED scanVars
    /\ pc \in {"returning", "unwinding"}
    /\ fk' = RestoreForeignKeys(fk)
    /\ pc' = IF pc = "returning" THEN "returned" ELSE "threw"
    /\ UNCHANGED <<db, versionReadable, tx, txOpen, lock, version, stmt, msg,
                   runs, faults, startDb, stepDb, applied, committed, reads,
                   failedAt>>

(***************************************************************************)
(* Another session (a scan) taking the store lock                          *)
(***************************************************************************)
OtherSessionLocks ==
    /\ UNCHANGED scanVars
    /\ lock = "free"
    /\ lock' = "other"
    /\ UNCHANGED <<db, versionReadable, tx, txOpen, fk, pc, version, stmt, msg,
                   runs, faults, startDb, stepDb, applied, committed, reads,
                   failedAt>>

OtherSessionUnlocks ==
    /\ UNCHANGED scanVars
    /\ lock = "other"
    /\ lock' = "free"
    /\ UNCHANGED <<db, versionReadable, tx, txOpen, fk, pc, version, stmt, msg,
                   runs, faults, startDb, stepDb, applied, committed, reads,
                   failedAt>>

MigNext ==
    \/ ScopedNoForeignKeys
    \/ createUniqueTransaction
    \/ GetVersionThrows
    \/ UpToDate
    \/ GetVersion
    \/ UnknownVersion
    \/ ExecuteStatement
    \/ StatementThrows
    \/ SetVersionAndCommit
    \/ ScopedNoForeignKeysEnd
    \/ OtherSessionLocks
    \/ OtherSessionUnlocks

(***************************************************************************)
(* The scanner (Database.cpp): filesystem and media files                  *)
(***************************************************************************)
AudioRoot == "/a"

FilePaths == {"/a/1", "/a/d/2"}

DirPaths == {"/a", "/a/d"}

\* the file that is rewritten between scans; the other one is only removed
WrittenPaths == {"/a/1"}

Paths == FilePaths \cup DirPaths

\* boost::filesystem::path::parent_path
parent_path(p) ==
    CASE p = "/a/1" -> "/a"
      [] p = "/a/d" -> "/a"
      [] p = "/a/d/2" -> "/a/d"
      [] OTHER -> "/"

\* boost::filesystem::path::filename
filename(p) ==
    CASE p = "/a/1" -> "1"
      [] p = "/a/d" -> "d"
      [] p = "/a/d/2" -> "2"
      [] OTHER -> "a"

\* the contents a media file can have
Contents == {1, 2, 3, 4, 5, 6}

NoEntry == [kind |-> "none", mtime |-> 0, data |-> 0]

DirEntry == [kind |-> "dir", mtime |-> 0, data |-> 0]

OtherEntry == [kind |-> "other", mtime |-> 0, data |-> 0]

\* a directory that cannot be listed (no read permission)
LockedEntry == [kind |-> "locked", mtime |-> 0, data |-> 0]

FileEntry(t, d) == [kind |-> "file", mtime |-> t, data |-> d]

Absent == "<absent>"

\* what MetaData::Parser::parse and Transcode::InputMediaFile find in a file
\* of contents d: the tags present (has), their values, whether there are
\* audio and video streams, and the probed duration; throws = TRUE when the
\* file cannot be parsed, illTyped are the tags whose value is not of the
\* type processAudioFile casts it to
Media(d) ==
    CASE d = 1 -> [throws |-> FALSE, audio |-> TRUE, video |-> FALSE,
                   probed |-> 10,
                   has |-> {"Title", "Artist", "Album", "Genre", "TrackNumber",
                            "DiscNumber", "Duration", "CreationTime"},
                   title |-> "T", artist |-> "X", album |-> "A",
                   genres |-> <<"G">>, trackNumber |-> 1, discNumber |-> 1,
                   duration |-> 10, creationTime |-> 1, illTyped |-> {}]
      [] d = 2 -> [throws |-> FALSE, audio |-> TRUE, video |-> FALSE,
                   probed |-> 20,
                   has |-> {"Artist"},
                   title |-> Absent, artist |-> "X", album |-> Absent,
                   genres |-> <<>>, trackNumber |-> 0, discNumber |-> 0,
                   duration |-> 0, creationTime |-> 0,
                   illTyped |-> {}]
      [] d = 3 -> [throws |-> FALSE, audio |-> TRUE, video |-> TRUE,
                   probed |-> 0,
                   has |-> {"Artist", "Album"},
                   title |-> Absent, artist |-> "Y", album |-> "A",
                   genres |-> <<>>, trackNumber |-> 0, discNumber |-> 0,
                   duration |-> 0, creationTime |-> 0,
                   illTyped |-> {}]
      [] d = 4 -> [throws |-> FALSE, audio |-> FALSE, video |-> TRUE,
                   probed |-> 10,
                   has |-> {},
                   title |-> Absent, artist |-> Absent, album |-> Absent,
                   genres |-> <<>>, trackNumber |-> 0, discNumber |-> 0,
                   duration |-> 0, creationTime |-> 0,
                   illTyped |-> {}]
      [] d = 6 -> [throws |-> FALSE, audio |-> TRUE, video |-> FALSE,
                   probed |-> 10,
                   has |-> {"Artist", "TrackNumber"},
                   title |-> Absent, artist |-> "Z", album |-> Absent,
                   genres |-> <<>>, trackNumber |-> 0, discNumber |-> 0,
                   duration |-> 0, creationTime |-> 0,
                   illTyped |-> {"TrackNumber"}]
      [] OTHER -> [throws |-> TRUE, audio |-> FALSE, video |-> FALSE,
                   probed |-> 0,
                   has |-> {},
                   title |-> Absent, artist |-> Absent, album |-> Absent,
                   genres |-> <<>>, trackNumber |-> 0, discNumber |-> 0,
                   duration |-> 0, creationTime |-> 0,
                   illTyped |-> {}]

\* computeCrc: a digest of the contents, shorter than the contents
computeCrc(d) == d % 4

\* the name of the sentinel Artist, Release and Genre
NoneName == "<None>"

\* boost::filesystem::exists: the entry and all its ancestors are there
RECURSIVE exists(_, _)
exists(f, p) ==
    /\ f[p].kind # "none"
    /\ parent_path(p) \in Paths => (f[parent_path(p)].kind \in {"dir", "locked"}
                                     /\ exists(f, parent_path(p)))

is_directory(f, p) == exists(f, p) /\ f[p].kind \in {"dir", "locked"}

is_regular(f, p) == exists(f, p) /\ f[p].kind = "file"

\* boost::filesystem::directory_iterator(p) throws: p cannot be listed
ListingThrows(f, p) == is_directory(f, p) /\ f[p].kind = "locked"

\* the entries boost::filesystem::directory_iterator(p) yields
Children(f, p) == {c \in Paths : parent_path(c) = p /\ exists(f, c)}

(***************************************************************************)
(* The rows of the scanner's store                                         *)
(***************************************************************************)
NoTrack == [id |-> 0]

\* a lookup that finds no Track
getByPathNever(rows, p) == NoTrack

\* Track::getByPath
getByPath(rows, p) ==
    IF \E r \in rows : r.path = p
    THEN CHOOSE r \in rows : r.path = p /\ \A q \in rows : q.path = p => r.id <= q.id
    ELSE NoTrack

\* Artist::getByName, Release::getByName, Genre::getByName: the index of the
\* first row of that name, 0 when there is none
getByName(rows, n) ==
    IF \E i \in DOMAIN rows : rows[i] = n
    THEN CHOOSE i \in DOMAIN rows : rows[i] = n /\ \A j \in DOMAIN rows : rows[j] = n => i <= j
    ELSE 0

\* a row created without the lookup
getOrCreateByNameAlways(rows, n) == Append(rows, n)

\* a lookup that creates no row for the sentinel name
getOrCreateByNameNoSentinel(rows, n) ==
    IF n = NoneName \/ (\E i \in DOMAIN rows : rows[i] = n) THEN rows
    ELSE Append(rows, n)

\* getByName, and create when there is no row: the rows afterwards
getOrCreateByName(rows, n) ==
    IF getByName(rows, n) = 0 THEN Append(rows, n) ELSE rows

\* the rows after every genre of the list was looked up or created, in order
RECURSIVE getOrCreateGenres(_, _)
getOrCreateGenres(rows, names) ==
    IF names = <<>> THEN rows
    ELSE getOrCreateGenres(getOrCreateByName(rows, Head(names)), Tail(names))

\* Track::create(session, file, artist, release)
TrackCreate(id, file, artist, release) ==
    [id |-> id, path |-> file, lastWriteTime |-> 0, checksum |-> NULL,
     name |-> "", genreList |-> <<>>, genres |-> {}, artist |-> artist,
     release |-> release, trackNumber |-> 0, discNumber |-> 0,
     duration |-> 0, creationTime |-> 0]

\* the setters processAudioFile calls on a track, from the parsed items
TrackUpdate(track, lastWriteTime, checksum, title, m, genreRows, artist, release) ==
    [track EXCEPT
        !.checksum = checksum,
        !.lastWriteTime = lastWriteTime,
        !.name = title,
        !.genreList = IF "Genre" \in m.has THEN m.genres ELSE <<>>,
        !.genres = genreRows,
        !.artist = artist,
        !.release = release,
        !.trackNumber = IF "TrackNumber" \in m.has THEN m.trackNumber ELSE @,
        !.discNumber = IF "DiscNumber" \in m.has THEN m.discNumber ELSE @,
        !.duration = IF "Duration" \in m.has THEN m.duration ELSE @,
        !.creationTime = IF "CreationTime" \in m.has THEN m.creationTime ELSE @]

Store(t, a, r, g, n) ==
    [tracks |-> t, artists |-> a, releases |-> r, genres |-> g, nextTrackId |-> n]

\* processAudioFile without its first test
LastWriteMatchNoTest(track, lastWriteTime) == FALSE

\* the first test of processAudioFile: the stored last write time is the file's
LastWriteMatch(track, lastWriteTime) ==
    track # NoTrack /\ track.lastWriteTime = lastWriteTime

\* processAudioFile without its second test
ChecksumMatchNoTest(track, checksum) == FALSE

\* the second test: the stored checksum is the file's
ChecksumMatch(track, checksum) ==
    track # NoTrack /\ track.checksum = checksum

\* the part of processAudioFile after the audio stream test: the rows are
\* looked up or created, the track created or updated.  A track removed for a
\* null duration stays removed: its setters act on a deleted object.
ResolveAndStore(st, file, e, track) ==
    LET m == Media(e.data)
        removed == m.probed = 0 /\ track # NoTrack
        title == IF "Title" \in m.has THEN m.title ELSE filename(file)
        artistName == IF "Artist" \in m.has THEN m.artist ELSE NoneName
        artistRows == getOrCreateByName(st.artists, artistName)
        albumName == IF "Album" \in m.has THEN m.album ELSE NoneName
        releaseRows == getOrCreateByName(st.releases, albumName)
        genreNames == IF "Genre" \in m.has /\ m.genres # <<>>
                      THEN m.genres ELSE <<NoneName>>
        genreRows == getOrCreateGenres(st.genres, genreNames)
        artist == getByName(artistRows, artistName)
        release == getByName(releaseRows, albumName)
        genreSet == {getByName(genreRows, genreNames[i]) : i \in DOMAIN genreNames}
        row == IF track = NoTrack
               THEN TrackCreate(st.nextTrackId, file, artist, release)
               ELSE track
        updated == TrackUpdate(row, e.mtime, computeCrc(e.data), title, m,
                               genreSet, artist, release)
    IN  [store |-> Store(IF removed THEN st.tracks \ {track}
                         ELSE (st.tracks \ {track}) \cup {updated},
                         artistRows, releaseRows, genreRows,
                         IF track = NoTrack THEN st.nextTrackId + 1
                         ELSE st.nextTrackId),
         outcome |-> IF removed THEN "removed"
                     ELSE IF track = NoTrack THEN "added" ELSE "updated"]

\* an unwinding that commits what the transaction wrote
UnwoundKeeps(before, written) == written

\* the store once an exception has left the try block of processAudioFile or
\* processVideoFile: the transaction is destroyed during unwinding, what was
\* written in it is rolled back
Unwound(before, written) == before

\* a skip that stores the file's last write time in its Track
SkippedStamps(st, track, e) ==
    IF track = NoTrack THEN st
    ELSE [st EXCEPT !.tracks =
            (@ \ {track}) \cup {[track EXCEPT !.lastWriteTime = e.mtime]}]

\* the store when processAudioFile returns after "Skipped": nothing was
\* written before the return
Skipped(st, track, e) == st

\* boost::any_cast throws on one of the tags of the file
CastThrows(m) == m.has \cap m.illTyped # {}

\* Database::processAudioFile on the regular file `file` with entry e: the
\* store afterwards and what was reported
processAudioFile(st, file, e) ==
    LET track == getByPath(st.tracks, file)
    IN  IF LastWriteMatch(track, e.mtime)
        THEN [store |-> Skipped(st, track, e), outcome |-> "skipLastWrite"]
        ELSE IF ChecksumMatch(track, computeCrc(e.data))
        THEN [store |-> Skipped(st, track, e), outcome |-> "skipChecksum"]
        ELSE IF Media(e.data).throws
        THEN [store |-> Unwound(st, st), outcome |-> "exception"]
        ELSE IF ~Media(e.data).audio
        THEN [store |-> Skipped(st, track, e), outcome |-> "skipNoAudio"]
        ELSE IF CastThrows(Media(e.data))
        THEN [store |-> Unwound(st, ResolveAndStore(st, file, e, track).store),
              outcome |-> "exception"]
        ELSE ResolveAndStore(st, file, e, track)

\* a reconciliation that keeps the Track of whatever still exists
removeMissingAudioFilesExisting(rows, f) ==
    {r \in rows : exists(f, r.path)}

\* a reconciliation that also drops the rows no watched directory holds
removeMissingAudioFilesWatched(rows, f) ==
    {r \in rows : /\ exists(f, r.path)
                  /\ is_regular(f, r.path)
                  /\ \E i \in DOMAIN directories : directories[i].type = "Audio"}

\* Database::removeMissingAudioFiles: the Track rows left
removeMissingAudioFiles(rows, f) ==
    {r \in rows : exists(f, r.path) /\ is_regular(f, r.path)}

(***************************************************************************)
(* The video side of the store: Path rows and their Video rows             *)
(***************************************************************************)
NoPath == [path |-> ""]

\* Path::getByPath
PathByPath(rows, p) ==
    IF \E r \in rows : r.path = p
    THEN CHOOSE r \in rows : r.path = p
    ELSE NoPath

\* Path::create: a node mirroring the entry p, under the given parent row
PathCreate(f, p, parentDirectory) ==
    [path |-> p,
     parent |-> parentDirectory.path,
     isDirectory |-> is_directory(f, p),
     lastWriteTime |-> 0]

\* Database::getAddPath: the Path rows once p has its row
getAddPath(rows, f, p) ==
    LET parentDirectory == PathByPath(rows, parent_path(p))
        res == PathByPath(rows, p)
    IN  IF res = NoPath
        THEN rows \cup {PathCreate(f, p, parentDirectory)}
        ELSE IF parentDirectory # NoPath /\ res.parent = ""
        THEN (rows \ {res}) \cup {[res EXCEPT !.parent = parentDirectory.path]}
        ELSE rows

VideoStore(p, v) == [paths |-> p, videos |-> v]

\* dbPath.remove(): the row goes, and the Video row it owns with it
PathRemove(st, dbPath) ==
    VideoStore(st.paths \ {dbPath},
               {v \in st.videos : dbPath = NoPath \/ v.path # dbPath.path})

\* the valid video branch of processVideoFile: the Path row is added if
\* needed and stamped, the Video row created or updated
StoreVideo(st, f, file, e, dbPath) ==
    LET added == IF dbPath = NoPath THEN getAddPath(st.paths, f, file)
                 ELSE st.paths
        row == PathByPath(added, file)
        video == [path |-> file, name |-> filename(file),
                  duration |-> Media(e.data).probed]
    IN  [store |-> VideoStore(
                     (added \ {row}) \cup {[row EXCEPT !.lastWriteTime = e.mtime]},
                     {v \in st.videos : v.path # file} \cup {video}),
         outcome |-> IF \E v \in st.videos : v.path = file
                     THEN "updated" ELSE "added"]

\* Database::processVideoFile on the regular file `file` with entry e: the
\* store afterwards and what was reported
processVideoFile(st, f, file, e) ==
    LET dbPath == PathByPath(st.paths, file)
    IN  IF dbPath # NoPath /\ dbPath.lastWriteTime = e.mtime
        THEN [store |-> st, outcome |-> "skipLastWrite"]
        ELSE IF Media(e.data).throws
        THEN [store |-> Unwound(st, st), outcome |-> "exception"]
        ELSE IF ~Media(e.data).video
        THEN [store |-> PathRemove(st, dbPath), outcome |-> "skipNoVideo"]
        ELSE IF Media(e.data).probed = 0
        THEN [store |-> PathRemove(st, dbPath), outcome |-> "skipNoDuration"]
        ELSE StoreVideo(st, f, file, e, dbPath)

(***************************************************************************)
(* The scanner's operations                                                *)
(***************************************************************************)
WatchedDirectories == {[path |-> AudioRoot, type |-> "Audio"]}

\* nothing met yet: the entry met, the scan that met it, and the scan
\* version of the settings when the Track was last stored
NoSeen == [entry |-> NoEntry, scan |-> 0, version |-> 0]

NoLog == [path |-> "", outcome |-> "none"]

\* the scanner with an empty store, one of the lists of Watched as its watched
\* directories, and a filesystem with entries from Files and Dirs
ScanInitOn(Files, Dirs, Watched) ==
    /\ \E e1, e2 \in Files, ed \in Dirs :
            fs = [p \in Paths |->
                    CASE p = "/a/1" -> e1
                      [] p = "/a/d" -> ed
                      [] p = "/a/d/2" -> IF ed.kind \in {"dir", "locked"}
                                      THEN e2 ELSE NoEntry
                      [] OTHER -> DirEntry]
    /\ directories \in Watched
    /\ tracks = {}
    /\ artists = <<>>
    /\ releases = <<>>
    /\ genres = <<>>
    /\ nextTrackId = 1
    /\ paths = {}
    /\ videos = {}
    /\ scanPc = "idle"
    /\ dirsLeft = <<>>
    /\ stack = <<>>
    /\ log = NoLog
    /\ scans = 0
    /\ changes = 0
    /\ seen = [p \in Paths |-> NoSeen]

\* after construction nothing is watched; a tree of two tagged audio files,
\* one of them in a subdirectory
ScanInit == ScanInitOn({FileEntry(1, 1)}, {DirEntry}, {<<>>})

\* an empty watched tree
ScanQuiet == ScanInitOn({NoEntry}, {NoEntry}, {<<>>})

\* Database::watchDirectory
watchDirectory(d) ==
    /\ UNCHANGED migVars
    /\ scanPc = "idle"
    /\ Len(directories) < MaxDirs
    /\ directories' = Append(directories, d)
    /\ UNCHANGED <<fs, tracks, artists, releases, genres, nextTrackId, paths,
                   videos, scanPc,
                   dirsLeft, stack, log, scans, changes, seen>>

\* std::find, then erase: the list without its first element equal to d
EraseFirst(list, d) ==
    IF \E i \in DOMAIN list : list[i] = d
    THEN LET k == CHOOSE i \in DOMAIN list :
                    list[i] = d /\ \A j \in DOMAIN list : list[j] = d => i <= j
         IN  [i \in 1..(Len(list) - 1) |-> IF i < k THEN list[i] ELSE list[i + 1]]
    ELSE list

\* Database::unwatchDirectory
unwatchDirectory(d) ==
    /\ UNCHANGED migVars
    /\ scanPc = "idle"
    /\ directories' = EraseFirst(directories, d)
    /\ UNCHANGED <<fs, tracks, artists, releases, genres, nextTrackId, paths,
                   videos, scanPc,
                   dirsLeft, stack, log, scans, changes, seen>>

\* the frames left once the directories with nothing pending are returned from
RECURSIVE Unwind(_)
Unwind(frames) ==
    IF frames # <<>> /\ frames[Len(frames)].pending = {}
    THEN Unwind(SubSeq(frames, 1, Len(frames) - 1))
    ELSE frames

\* the walk after a step: refresh returns when nothing is left to walk
Walk(frames, left) ==
    /\ stack' = Unwind(frames)
    /\ dirsLeft' = left
    /\ scanPc' = IF Unwind(frames) = <<>> /\ left = <<>> THEN "idle" ELSE "walk"

\* refreshAudioDirectory(p) is entered: the entries of p are listed
EnterDirectory(frames, p) ==
    IF exists(fs, p) /\ is_directory(fs, p)
    THEN Append(frames, [dir |-> p, pending |-> Children(fs, p),
                         type |-> "Audio"])
    ELSE frames

\* Database::refresh is called: removeMissingAudioFiles
refresh ==
    /\ UNCHANGED migVars
    /\ scanPc = "idle"
    /\ scans < MaxScans
    /\ scans' = scans + 1
    /\ tracks' = removeMissingAudioFiles(tracks, fs)
    /\ Walk(<<>>, directories)
    /\ log' = NoLog
    /\ UNCHANGED <<fs, directories, artists, releases, genres, nextTrackId,
                   paths, videos, changes, seen>>

\* an exception leaves refresh: the walk ends there
Abort(p) ==
    /\ stack' = <<>>
    /\ dirsLeft' = <<>>
    /\ scanPc' = "idle"
    /\ log' = [path |-> p, outcome |-> "aborted"]

\* refresh takes the next watched directory, an audio directory
NextDirectory ==
    /\ UNCHANGED migVars
    /\ scanPc = "walk"
    /\ stack = <<>>
    /\ dirsLeft # <<>>
    /\ Head(dirsLeft).type = "Audio"
    /\ IF ListingThrows(fs, Head(dirsLeft).path)
       THEN Abort(Head(dirsLeft).path)
       ELSE /\ Walk(EnterDirectory(<<>>, Head(dirsLeft).path), Tail(dirsLeft))
            /\ UNCHANGED log
    /\ UNCHANGED <<fs, directories, tracks, artists, releases, genres,
                   nextTrackId, paths, videos, scans, changes, seen>>

\* the frames with entry c taken off the innermost directory's list
Taken(frames, c) ==
    [frames EXCEPT ![Len(frames)].pending = @ \ {c}]

\* the loop of refreshAudioDirectory meets the directory c
VisitDirectory(c) ==
    /\ UNCHANGED migVars
    /\ scanPc = "walk"
    /\ stack # <<>>
    /\ c \in stack[Len(stack)].pending
    /\ stack[Len(stack)].type = "Audio"
    /\ is_directory(fs, c)
    /\ IF ListingThrows(fs, c)
       THEN /\ Walk(Taken(stack, c), dirsLeft)
            /\ log' = [path |-> c, outcome |-> "exceptionAccessing"]
       ELSE /\ Walk(EnterDirectory(Taken(stack, c), c), dirsLeft)
            /\ UNCHANGED log
    /\ UNCHANGED <<fs, directories, tracks, artists, releases, genres,
                   nextTrackId, paths, videos, scans, changes, seen>>

\* the loop of refreshAudioDirectory meets the regular file c
VisitFile(c) ==
    /\ UNCHANGED migVars
    /\ scanPc = "walk"
    /\ stack # <<>>
    /\ c \in stack[Len(stack)].pending
    /\ stack[Len(stack)].type = "Audio"
    /\ ~is_directory(fs, c)
    /\ is_regular(fs, c)
    /\ LET r == processAudioFile(
                    Store(tracks, artists, releases, genres, nextTrackId),
                    c, fs[c])
       IN  /\ tracks' = r.store.tracks
           /\ artists' = r.store.artists
           /\ releases' = r.store.releases
           /\ genres' = r.store.genres
           /\ nextTrackId' = r.store.nextTrackId
           /\ log' = [path |-> c, outcome |-> r.outcome]
    /\ seen' = [seen EXCEPT ![c] =
                    [entry |-> fs[c], scan |-> scans,
                     version |-> IF log'.outcome \in {"added", "updated"}
                                 THEN db.scanVersion ELSE @.version]]
    /\ Walk(Taken(stack, c), dirsLeft)
    /\ UNCHANGED <<fs, directories, paths, videos, scans, changes>>

\* the loop of refreshAudioDirectory meets an entry that is neither
SkipEntry(c) ==
    /\ UNCHANGED migVars
    /\ scanPc = "walk"
    /\ stack # <<>>
    /\ c \in stack[Len(stack)].pending
    /\ stack[Len(stack)].type = "Audio"
    /\ ~is_directory(fs, c)
    /\ ~is_regular(fs, c)
    /\ Walk(Taken(stack, c), dirsLeft)
    /\ UNCHANGED <<fs, directories, tracks, artists, releases, genres,
                   nextTrackId, paths, videos, log, scans, changes, seen>>

\* refreshVideoDirectory(p) has listed the entries of p
EnterVideoDirectory(frames, p) ==
    Append(frames, [dir |-> p, pending |-> Children(fs, p), type |-> "Video"])

\* assert fails in a build that keeps assertions: the process is aborted,
\* the transaction it was in is never committed
AssertFails(p) ==
    /\ stack' = <<>>
    /\ dirsLeft' = <<>>
    /\ scanPc' = "crashed"
    /\ log' = [path |-> p, outcome |-> "assertion"]
    /\ paths' = paths

\* refreshVideoDirectory(p) after its assertion: the transaction that added
\* the Path row is committed, then the entries are listed
ListVideoDirectory(frames, left, p) ==
    /\ paths' = getAddPath(paths, fs, p)
    /\ IF ListingThrows(fs, p)
       THEN Abort(p)
       ELSE /\ Walk(EnterVideoDirectory(frames, p), left)
            /\ UNCHANGED log

\* refreshVideoDirectory(p) on a directory: its Path row is added in a
\* transaction of its own and asserted to be a directory; a build with
\* NDEBUG goes on whatever the row says
RefreshVideoDirectory(frames, left, p) ==
    IF PathByPath(getAddPath(paths, fs, p), p).isDirectory
    THEN ListVideoDirectory(frames, left, p)
    ELSE \/ AssertFails(p)
         \/ ListVideoDirectory(frames, left, p)

\* refresh takes the next watched directory, a video directory
NextVideoDirectory ==
    /\ UNCHANGED migVars
    /\ scanPc = "walk"
    /\ stack = <<>>
    /\ dirsLeft # <<>>
    /\ Head(dirsLeft).type = "Video"
    /\ IF exists(fs, Head(dirsLeft).path) /\ is_directory(fs, Head(dirsLeft).path)
       THEN RefreshVideoDirectory(<<>>, Tail(dirsLeft), Head(dirsLeft).path)
       ELSE /\ Walk(<<>>, Tail(dirsLeft))
            /\ UNCHANGED <<paths, log>>
    /\ UNCHANGED <<fs, directories, tracks, artists, releases, genres,
                   nextTrackId, videos, scans, changes, seen>>

\* the loop of refreshVideoDirectory meets the directory c
VisitVideoDirectory(c) ==
    /\ UNCHANGED migVars
    /\ scanPc = "walk"
    /\ stack # <<>>
    /\ c \in stack[Len(stack)].pending
    /\ stack[Len(stack)].type = "Video"
    /\ is_directory(fs, c)
    /\ RefreshVideoDirectory(Taken(stack, c), dirsLeft, c)
    /\ UNCHANGED <<fs, directories, tracks, artists, releases, genres,
                   nextTrackId, videos, scans, changes, seen>>

\* the loop of refreshVideoDirectory meets the regular file c
VisitVideoFile(c) ==
    /\ UNCHANGED migVars
    /\ scanPc = "walk"
    /\ stack # <<>>
    /\ c \in stack[Len(stack)].pending
    /\ stack[Len(stack)].type = "Video"
    /\ ~is_directory(fs, c)
    /\ is_regular(fs, c)
    /\ LET r == processVideoFile(VideoStore(paths, videos), fs, c, fs[c])
       IN  /\ paths' = r.store.paths
           /\ videos' = r.store.videos
           /\ log' = [path |-> c, outcome |-> r.outcome]
    /\ seen' = [seen EXCEPT ![c] = [@ EXCEPT !.entry = fs[c], !.scan = scans]]
    /\ Walk(Taken(stack, c), dirsLeft)
    /\ UNCHANGED <<fs, directories, tracks, artists, releases, genres,
                   nextTrackId, scans, changes>>

\* the loop of refreshVideoDirectory meets an entry that is neither
SkipVideoEntry(c) ==
    /\ UNCHANGED migVars
    /\ scanPc = "walk"
    /\ stack # <<>>
    /\ c \in stack[Len(stack)].pending
    /\ stack[Len(stack)].type = "Video"
    /\ ~is_directory(fs, c)
    /\ ~is_regular(fs, c)
    /\ Walk(Taken(stack, c), dirsLeft)
    /\ UNCHANGED <<fs, directories, tracks, artists, releases, genres,
                   nextTrackId, paths, videos, log, scans, changes, seen>>

(***************************************************************************)
(* The filesystem changes between two scans                                *)
(***************************************************************************)
FsChange(f) ==
    /\ UNCHANGED migVars
    /\ scanPc = "idle"
    /\ changes < MaxChanges
    /\ changes' = changes + 1
    /\ fs' = f
    /\ UNCHANGED <<directories, tracks, artists, releases, genres, nextTrackId,
                   paths, videos, scanPc, dirsLeft, stack, log, scans, seen>>

\* a file is written, created or touched
FsWrite(p, t, d) ==
    /\ is_directory(fs, parent_path(p))
    /\ fs[p] # FileEntry(t, d)
    /\ FsChange([fs EXCEPT ![p] = FileEntry(t, d)])

\* an entry is removed, a directory with what is below it
FsRemove(p) ==
    /\ exists(fs, p)
    /\ FsChange([q \in Paths |->
                    IF q = p \/ parent_path(q) = p THEN NoEntry ELSE fs[q]])

\* a file is replaced by something that is neither a file nor a directory
FsMkOther(p) ==
    /\ is_directory(fs, parent_path(p))
    /\ fs[p].kind # "other"
    /\ FsChange([fs EXCEPT ![p] = OtherEntry])

\* a regular file is replaced by a directory of the same name that holds a
\* video file (a directory moved onto its place)
FsReplaceByDirectory(p) ==
    /\ is_regular(fs, p)
    /\ FsChange([q \in Paths |->
                    IF q = p THEN DirEntry
                    ELSE IF parent_path(q) = p THEN FileEntry(1, 4)
                    ELSE fs[q]])

\* a directory loses its read permission: it can no longer be listed
FsLock(p) ==
    /\ is_directory(fs, p)
    /\ fs[p].kind # "locked"
    /\ FsChange([fs EXCEPT ![p] = LockedEntry])

ScanNext ==
    \/ \E d \in WatchedDirectories : watchDirectory(d)
    \/ \E d \in WatchedDirectories : unwatchDirectory(d)
    \/ refresh
    \/ NextDirectory
    \/ \E c \in Paths : VisitDirectory(c)
    \/ \E c \in Paths : VisitFile(c)
    \/ \E c \in Paths : SkipEntry(c)
    \/ \E p \in WrittenPaths, t \in 1..MaxTime, d \in Contents : FsWrite(p, t, d)
    \/ \E p \in Paths \ {AudioRoot} : FsRemove(p)
    \/ \E p \in WrittenPaths : FsMkOther(p)

\* between iterations the tables are those of the stored version
LayoutConsistent ==
    (~txOpen /\ db.vinfo.present /\ db.vinfo.version \in 5..LMS_DATABASE_VERSION)
        => \A t \in TableNames :
              /\ db.tables[t].exists = LayoutAt(db.vinfo.version)[t].exists
              /\ db.tables[t].cols = LayoutAt(db.vinfo.version)[t].cols

\* the migration engine alone, the scanner idle
MigStart == MigInit /\ ScanQuiet

MigSpec == MigStart /\ [][MigNext]_vars

\* the scanner alone, on a store the migration engine does not touch
ScanStart == ScanInit /\ MigQuiet

ScanSpec == ScanStart /\ [][ScanNext]_vars

\* doDbMigration has been called and has not ended
Migrating == pc \notin {"idle", "returned", "threw"}

\* a store the scanner and doDbMigration share: the library of ScanInit, on a
\* store one signalling step behind (version 30, whose step ends with
\* incScanVersion) or up to date
RescanStart ==
    /\ ScanInit
    /\ MigInitOn({30, LMS_DATABASE_VERSION}, {0}, {TRUE}, {TRUE})

\* doDbMigration runs between two scans, not during one; a scan starts when
\* no migration is running
RescanNext ==
    \/ ~Migrating /\ ScanNext
    \/ scanPc = "idle" /\ ScopedNoForeignKeys
    \/ scanPc = "idle" /\ createUniqueTransaction
    \/ scanPc = "idle" /\ UpToDate
    \/ scanPc = "idle" /\ GetVersion
    \/ scanPc = "idle" /\ ExecuteStatement
    \/ scanPc = "idle" /\ StatementThrows
    \/ scanPc = "idle" /\ SetVersionAndCommit
    \/ scanPc = "idle" /\ ScopedNoForeignKeysEnd

\* the scanner, with rescans signalled by migrations
RescanSpec == RescanStart /\ [][RescanNext]_vars

VideoRoot == [path |-> AudioRoot, type |-> "Video"]

\* what is written between two scans of the library: a file whose TrackNumber
\* tag is ill-typed (the files of the other kinds are in the initial tree)
LibraryWrites == {d \in Contents : CastThrows(Media(d))}

\* a library of both kinds: the tree is watched as audio and as video, in
\* either order
LibraryDirectories ==
    {<<[path |-> AudioRoot, type |-> "Audio"], [path |-> AudioRoot, type |-> "Video"]>>,
     <<[path |-> AudioRoot, type |-> "Video"], [path |-> AudioRoot, type |-> "Audio"]>>}

\* the scanner once watchDirectory was called for both, on a tree of an
\* audio file and, in a subdirectory that may be unreadable, a video file
LibraryInit ==
    /\ ScanInitOn({FileEntry(1, 1), FileEntry(1, 4)}, {DirEntry, LockedEntry},
                  LibraryDirectories)
    /\ fs["/a/1"] = FileEntry(1, 1)
    /\ fs["/a/d/2"] = FileEntry(1, 4)

LibraryStart == LibraryInit /\ MigQuiet

\* the scanner on a library with audio and video directories, some of them
\* unreadable
LibraryNext ==
    \/ \E d \in WatchedDirectories \cup {VideoRoot} : watchDirectory(d)
    \/ \E d \in WatchedDirectories \cup {VideoRoot} : unwatchDirectory(d)
    \/ refresh
    \/ NextDirectory
    \/ \E c \in Paths : VisitDirectory(c)
    \/ \E c \in Paths : VisitFile(c)
    \/ \E c \in Paths : SkipEntry(c)
    \/ NextVideoDirectory
    \/ \E c \in Paths : VisitVideoDirectory(c)
    \/ \E c \in Paths : VisitVideoFile(c)
    \/ \E c \in Paths : SkipVideoEntry(c)
    \/ \E p \in WrittenPaths, t \in 1..MaxTime, d \in LibraryWrites : FsWrite(p, t, d)
    \/ \E p \in Paths \ {AudioRoot} : FsRemove(p)
    \/ \E p \in WrittenPaths : FsMkOther(p)
    \/ \E p \in DirPaths : FsLock(p)

LibrarySpec == LibraryStart /\ [][LibraryNext]_vars

\* the scanner of a video library: the tree is watched as video, the entry
\* named d is a video file or a directory
VideoInit ==
    ScanInitOn({FileEntry(1, 4)}, {FileEntry(1, 4), DirEntry}, {<<VideoRoot>>})

VideoStart == VideoInit /\ MigQuiet

VideoNext ==
    \/ \E d \in {VideoRoot} : unwatchDirectory(d)
    \/ \E d \in {VideoRoot} : watchDirectory(d)
    \/ refresh
    \/ NextVideoDirectory
    \/ \E c \in Paths : VisitVideoDirectory(c)
    \/ \E c \in Paths : VisitVideoFile(c)
    \/ \E p \in WrittenPaths, t \in 1..MaxTime, d \in Contents : FsWrite(p, t, d)
    \/ \E p \in Paths \ {AudioRoot} : FsRemove(p)
    \/ \E p \in DirPaths \ {AudioRoot} : FsReplaceByDirectory(p)

VideoSpec == VideoStart /\ [][VideoNext]_vars

(***************************************************************************)
(* Properties of doDbMigration                                             *)
(***************************************************************************)
\* the run in progress started on a store whose version record could be read
StartedReadable == runs > 0 /\ versionReadable /\ startDb.vinfo.present

\* one of the actions of doDbMigration that does not end it with an exception
MigrationCanGoOn ==
    ENABLED (\/ createUniqueTransaction
             \/ UpToDate
             \/ GetVersion
             \/ ExecuteStatement
             \/ SetVersionAndCommit)

TrackIds(d) == {r.id : r \in d.tables["track"].rows}

\* the first n statements of stmts run on d
RECURSIVE RunStmts(_, _, _, _)
RunStmts(stmts, n, d, f) ==
    IF n = 0 THEN d ELSE Exec(stmts[n], RunStmts(stmts, n - 1, d, f), f).db

\* C1: a run started on a store of a registered version V, in which no step
\* throws, never fails, raises the stored version by one per iteration up to
\* LMS_DATABASE_VERSION, can always go on while the lock is to be had, and
\* returns only with the stored version equal to LMS_DATABASE_VERSION
C1_MigrationReachesTarget ==
    (/\ StartedReadable
     /\ startDb.vinfo.version \in 5..31
     /\ msg # stepFailedMsg)
    => /\ pc # "threw"
       /\ db.vinfo.version = startDb.vinfo.version + Len(applied)
       /\ db.vinfo.version <= LMS_DATABASE_VERSION
       /\ (pc = "returned") => (db.vinfo.version = LMS_DATABASE_VERSION)
       /\ (Running /\ lock # "other") => MigrationCanGoOn

C1_Witness ==
    /\ pc = "returned"
    /\ runs = 1
    /\ faults = 0
    /\ startDb.vinfo.version = 5
    /\ db.vinfo.version = LMS_DATABASE_VERSION
    /\ Len(applied) = LMS_DATABASE_VERSION - 5
    /\ db.tables["track"].rows # {}

\* C2, as stated: the migration holds the store lock from the start of the
\* run to its end, so that once a run has committed a step and until the
\* target version is stored, no other session holds the store lock
C2_LockHeldForWholeRun ==
    ~(/\ Running
      /\ applied # <<>>
      /\ db.vinfo.version # LMS_DATABASE_VERSION
      /\ lock = "other")

\* what the code does provide instead: the store lock is held by the migration
\* exactly while an iteration's transaction is open (version read, step,
\* version write); whenever another session holds it during a run, the run is
\* between two iterations and has nothing uncommitted
C2_LockHeldWithinIteration ==
    /\ (pc \in {"read", "step"}) <=> txOpen
    /\ txOpen <=> (lock = "migration")
    /\ (lock = "other" /\ Running) => (pc = "loop" /\ tx = db)

C2_Witness ==
    /\ pc = "step"
    /\ lock = "migration"
    /\ applied # <<>>
    /\ stmt > 1
    /\ tx # db

\* C3: when a step throws, the store is the one the iteration started with
\* (no statement of the step and no version write is kept), the stored version
\* is the key of the step that threw, and the next step a later run dispatches
\* is that same step
C3_FailedStepLeavesNoTrace ==
    /\ (pc = "threw" /\ msg = stepFailedMsg)
        => /\ db = stepDb
           /\ tx = db
           /\ ~txOpen
           /\ failedAt \in 5..31
           /\ db.vinfo.version = failedAt
           /\ db.vinfo.version = startDb.vinfo.version + Len(applied)
    /\ (pc = "step" /\ failedAt # 0) => (version = failedAt /\ applied = <<>>)

C3_Witness ==
    /\ pc = "threw"
    /\ msg = stepFailedMsg
    /\ stmt > 1
    /\ applied # <<>>
    /\ db.tables["track"].rows # {}

\* C4: a run on a store whose version is LMS_DATABASE_VERSION reads the version
\* once, writes nothing, applies no step and returns
C4_UpToDateRunIsNoOp ==
    (StartedReadable /\ startDb.vinfo.version = LMS_DATABASE_VERSION)
    => /\ db = startDb
       /\ applied = <<>>
       /\ committed = <<>>
       /\ pc \in {"loop", "read", "returning", "returned"}
       /\ reads = (IF pc \in {"returning", "returned"} THEN 1 ELSE 0)

C4_Witness ==
    /\ runs = 2
    /\ pc = "returned"
    /\ reads = 1
    /\ startDb.vinfo.version = LMS_DATABASE_VERSION
    /\ db = startDb
    /\ db.tables["track"].rows # {}

\* C5: a run on a store whose version cannot be read, or is neither a
\* registered version nor LMS_DATABASE_VERSION, never returns and changes
\* nothing; it throws the rebuild message when the version is unreadable or
\* lower than LMS_DATABASE_VERSION, the upgrade message when it is higher; and
\* these messages are thrown in no other case
C5_FatalOnUnknownVersion ==
    LET v == IF db.vinfo.present THEN db.vinfo.version ELSE NewVersionInfoVersion
        unknown == v \notin 5..31 /\ v # LMS_DATABASE_VERSION
    IN  /\ (runs > 0 /\ ~versionReadable)
            => /\ db = startDb
               /\ applied = <<>>
               /\ pc \in {"loop", "read", "unwinding", "threw"}
               /\ (pc \in {"unwinding", "threw"}) => (msg = outdatedMsg)
        /\ (runs > 0 /\ versionReadable /\ unknown)
            => /\ db = startDb
               /\ applied = <<>>
               /\ pc \in {"loop", "read", "step", "unwinding", "threw"}
               /\ (pc = "step") => (stmt = 1 /\ tx.tables = db.tables)
               /\ (pc \in {"unwinding", "threw"})
                    => msg = (IF v < LMS_DATABASE_VERSION
                              THEN outdatedMsg ELSE upgradeMsg)
        /\ (pc \in {"unwinding", "threw"} /\ msg \in {outdatedMsg, upgradeMsg})
            => (~versionReadable \/ unknown)

C5_Witness ==
    /\ pc = "threw"
    /\ msg = upgradeMsg
    /\ versionReadable
    /\ db.vinfo.version > LMS_DATABASE_VERSION
    /\ db = startDb

\* C6: foreign keys are off from the first to the last instruction of
\* doDbMigration and on again once it has returned or thrown
C6_ForeignKeysRestored ==
    /\ Migrating => ~fk
    /\ (pc \in {"idle", "returned", "threw"}) => fk

C6_Witness ==
    /\ pc = "threw"
    /\ msg = stepFailedMsg
    /\ failedAt # 0
    /\ fk

\* C7 as the specification states it: a run on a store of version 0, with no
\* step thrown, ends with the track_bookmark table created and the Track keys
\* kept
C7_VersionZeroGetsBookmarks ==
    (/\ StartedReadable
     /\ startDb.vinfo.version = 0
     /\ pc \in {"returned", "threw"}
     /\ msg # stepFailedMsg)
    => /\ db.vinfo.version >= 9
       /\ db.tables["track_bookmark"].exists
       /\ TrackIds(db) = TrackIds(startDb)

\* C7: once a run started on a store of version 5 to 9 has stored a version
\* above 9, the track_bookmark table exists and the Track rows have the keys
\* they had; a run on a store of version 0 throws the rebuild message and
\* leaves the store as it was
C7_BookmarksFromRegisteredVersion ==
    /\ (StartedReadable /\ startDb.vinfo.version \in 5..9
            /\ db.vinfo.version > 9)
        => /\ db.tables["track_bookmark"].exists
           /\ TrackIds(db) = TrackIds(startDb)
    /\ (StartedReadable /\ startDb.vinfo.version = 0)
        => /\ db = startDb
           /\ pc # "returned"
           /\ (pc = "threw") => (msg = outdatedMsg)

C7_Witness ==
    /\ startDb.vinfo.version = 5
    /\ db.vinfo.version = 10
    /\ pc = "loop"
    /\ db.tables["track_bookmark"].exists
    /\ ~startDb.tables["track_bookmark"].exists
    /\ TrackIds(db) # {}

\* C8: the i-th iteration of a run started at version V applies the step keyed
\* V + i - 1, all its statements and no other, and then stores V + i: no
\* version is skipped or repeated, and the stored version never goes down
C8_OneStepPerIteration ==
    (runs > 0 /\ versionReadable)
    => LET V == IF startDb.vinfo.present THEN startDb.vinfo.version
                ELSE NewVersionInfoVersion
       IN  /\ Len(committed) = Len(applied)
           /\ \A i \in 1..Len(applied) :
                /\ applied[i] = V + i - 1
                /\ committed[i] = V + i
           /\ db.vinfo.present => (db.vinfo.version = V + Len(applied))
           /\ (pc = "step")
                => /\ version = V + Len(applied)
                   /\ tx.vinfo.version = version
                   /\ (version \in 5..31)
                        => /\ stmt \in 1..(Len(Steps(version)) + 1)
                           /\ tx.tables =
                                RunStmts(Steps(version), stmt - 1, stepDb, fk).tables

C8_Witness ==
    /\ pc = "step"
    /\ Len(applied) >= 3
    /\ stmt > 1
    /\ version = startDb.vinfo.version + Len(applied)

(***************************************************************************)
(* Properties of the scanner                                               *)
(***************************************************************************)
\* the rows a scan writes to
Rows == <<tracks, artists, releases, genres>>

\* the previous refresh met file c as it is now, by timestamp and checksum
UnchangedSinceLastScan(c) ==
    /\ seen[c].scan > 0
    /\ seen[c].scan = scans - 1
    /\ seen[c].entry.kind = "file"
    /\ seen[c].entry.mtime = fs[c].mtime
    /\ computeCrc(seen[c].entry.data) = computeCrc(fs[c].data)

\* file c has a Track, and exactly one of its stored timestamp and checksum
\* is that of the file
ChangedInOne(c) ==
    LET track == getByPath(tracks, c)
    IN  /\ track # NoTrack
        /\ (track.lastWriteTime = fs[c].mtime)
                # (track.checksum = computeCrc(fs[c].data))

\* C9 as the specification states it: a scan that meets a file with the
\* timestamp and the checksum it had at the previous scan leaves the Track,
\* Artist, Release and Genre rows as they are
C9_UnchangedFileNoWrites ==
    [][\A c \in FilePaths :
            (VisitFile(c) /\ UnchangedSinceLastScan(c)) => UNCHANGED Rows]_vars

\* C10 as the specification states it: a scan that meets a file of which
\* exactly one of timestamp and checksum differs from the stored ones
\* reprocesses it
C10_ReprocessedOnce ==
    [][\A c \in FilePaths :
            (VisitFile(c) /\ ChangedInOne(c))
                => log'.outcome \in {"added", "updated", "removed"}]_vars

\* C10: a scan that meets a file of which exactly one of timestamp and checksum
\* differs from the stored ones skips it, on the timestamp when that is the
\* same and else on the checksum, and writes no row; the stored values stay as
\* they were, so every later scan skips it in the same way
C10_ChangedInOneIsSkipped ==
    [][\A c \in FilePaths :
            (VisitFile(c) /\ ChangedInOne(c))
                => /\ log'.outcome =
                        (IF getByPath(tracks, c).lastWriteTime = fs[c].mtime
                         THEN "skipLastWrite" ELSE "skipChecksum")
                   /\ UNCHANGED Rows
                   /\ ChangedInOne(c)']_vars

C10_Witness ==
    \E c \in FilePaths :
        /\ log = [path |-> c, outcome |-> "skipChecksum"]
        /\ seen[c].entry = fs[c]
        /\ seen[c].scan = scans
        /\ scans = 3
        /\ ChangedInOne(c)
        /\ getByPath(tracks, c).lastWriteTime # fs[c].mtime

\* the parser and the prober find audio of null duration in file c
ZeroDuration(c) ==
    /\ ~Media(fs[c].data).throws
    /\ Media(fs[c].data).audio
    /\ Media(fs[c].data).probed = 0

\* C11 as the specification states it: once processAudioFile has found a
\* null duration in a file, there is no Track row for that file
C11_ZeroDurationHasNoTrack ==
    [][\A c \in FilePaths :
            (/\ VisitFile(c)
             /\ ZeroDuration(c)
             /\ log'.outcome \in {"added", "updated", "removed"})
                => getByPath(tracks', c) = NoTrack]_vars

\* no two rows of the list have the same name
Distinct(rows) ==
    \A i, j \in DOMAIN rows : rows[i] = rows[j] => i = j

\* C13: no two Artist rows, no two Release rows and no two Genre rows have
\* the same name, and two Tracks made from the same artist, album or genre
\* text reference the same row
C13_OneRowPerName ==
    /\ Distinct(artists)
    /\ Distinct(releases)
    /\ Distinct(genres)
    /\ \A t1, t2 \in tracks :
        /\ (t1.artist \in DOMAIN artists /\ t2.artist \in DOMAIN artists
                /\ artists[t1.artist] = artists[t2.artist])
            => t1.artist = t2.artist
        /\ (t1.release \in DOMAIN releases /\ t2.release \in DOMAIN releases
                /\ releases[t1.release] = releases[t2.release])
            => t1.release = t2.release
        /\ (t1.genreList = t2.genreList) => t1.genres = t2.genres

C13_Witness ==
    /\ \E t1, t2 \in tracks :
        /\ t1.path # t2.path
        /\ t1.artist = t2.artist
        /\ t1.release = t2.release
        /\ t1.genres = t2.genres
        /\ artists[t1.artist] = "X"
    /\ Len(artists) = 1
    /\ scans = 2

\* the row names a Track made from the items m must reference
ArtistNameOf(m) == IF "Artist" \in m.has THEN m.artist ELSE NoneName

ReleaseNameOf(m) == IF "Album" \in m.has THEN m.album ELSE NoneName

GenreNamesOf(m) ==
    IF "Genre" \in m.has /\ m.genres # <<>>
    THEN {m.genres[i] : i \in DOMAIN m.genres} ELSE {NoneName}

\* C15: after every call of processAudioFile each Track references an Artist
\* row, a Release row and at least one Genre row, and the Track the call has
\* stored references the rows named by the file's tags, the row named
\* NoneName where the tag is missing
C15_ReferencesNeverNull ==
    [][\A c \in FilePaths :
            VisitFile(c)
            => /\ \A t \in tracks' :
                    /\ t.artist \in DOMAIN artists'
                    /\ t.release \in DOMAIN releases'
                    /\ t.genres # {}
                    /\ t.genres \subseteq DOMAIN genres'
               /\ (log'.outcome \in {"added", "updated"})
                    => LET t == getByPath(tracks', c)
                           m == Media(fs[c].data)
                       IN  /\ t # NoTrack
                           /\ artists'[t.artist] = ArtistNameOf(m)
                           /\ releases'[t.release] = ReleaseNameOf(m)
                           /\ {genres'[g] : g \in t.genres} = GenreNamesOf(m)]_vars

C15_Witness ==
    \E t1, t2 \in tracks :
        /\ t1.path # t2.path
        /\ artists[t1.artist] = "X"
        /\ releases[t1.release] = NoneName
        /\ releases[t2.release] = "A"
        /\ {genres[g] : g \in t1.genres} = {NoneName}
        /\ log = [path |-> t1.path, outcome |-> "updated"]

\* C16 as the specification states it: a Track that processAudioFile has
\* updated holds, for track number, disc number, duration and creation time,
\* the value of the file's tag, and the value of a new Track when the tag is
\* missing
C16_FullOverwrite ==
    [][\A c \in FilePaths :
            (VisitFile(c) /\ log'.outcome = "updated")
            => LET t == getByPath(tracks', c)
                   m == Media(fs[c].data)
                   new == TrackCreate(0, c, 0, 0)
               IN  /\ t.trackNumber = (IF "TrackNumber" \in m.has
                                       THEN m.trackNumber ELSE new.trackNumber)
                   /\ t.discNumber = (IF "DiscNumber" \in m.has
                                      THEN m.discNumber ELSE new.discNumber)
                   /\ t.duration = (IF "Duration" \in m.has
                                    THEN m.duration ELSE new.duration)
                   /\ t.creationTime = (IF "CreationTime" \in m.has
                                        THEN m.creationTime
                                        ELSE new.creationTime)]_vars

\* C17 as the specification states it: once processAudioFile has found no
\* audio stream in a file, there is no Track row for that file
C17_NoAudioHasNoTrack ==
    [][\A c \in FilePaths :
            (VisitFile(c) /\ log'.outcome = "skipNoAudio")
                => getByPath(tracks', c) = NoTrack]_vars

\* C14 as the specification states it: a file whose Track was stored under a
\* lower scan version than the settings now hold is reprocessed by the scan
\* that meets it, although its timestamp and checksum are the stored ones
C14_StaleScanVersionReprocessed ==
    [][\A c \in FilePaths :
            (/\ VisitFile(c)
             /\ seen[c].version < db.scanVersion
             /\ LastWriteMatch(getByPath(tracks, c), fs[c].mtime)
             /\ ChecksumMatch(getByPath(tracks, c), computeCrc(fs[c].data)))
                => log'.outcome \in {"added", "updated", "removed"}]_vars

(***************************************************************************)
(* Properties of the scan of a library with audio and video directories    *)
(***************************************************************************)
\* this step ends a call of refresh that no exception left
ScanCompletes ==
    /\ scanPc' = "idle"
    /\ scanPc = "walk" \/ scans' # scans
    /\ log'.outcome # "aborted"

\* C12, as stated: when a scan completes, every Track row, every Video row
\* and every Path row of a file has a backing path that exists and is a
\* regular file, so that no row of a file deleted before the scan remains.
C12_RowsHaveBackingFile ==
    [][ScanCompletes =>
          /\ \A t \in tracks' : exists(fs', t.path) /\ is_regular(fs', t.path)
          /\ \A v \in videos' : exists(fs', v.path) /\ is_regular(fs', v.path)
          /\ \A r \in paths' :
                r.path \in FilePaths => exists(fs', r.path) /\ is_regular(fs', r.path)]_vars

\* the walk can reach p: every directory above it, up to the watched root,
\* can be listed
RECURSIVE Listed(_, _)
Listed(f, p) ==
    /\ exists(f, p)
    /\ p # AudioRoot => (/\ ~ListingThrows(f, parent_path(p))
                         /\ Listed(f, parent_path(p)))

\* this step ends a call of refresh
RefreshEnds == scanPc = "walk" /\ scanPc' = "idle"

\* C18, as stated: a directory that cannot be listed, met in a watched
\* directory, does not abort the walk; when refresh ends, every regular file
\* the walk can reach in a watched directory was visited by this call.
C18_UnreadableIsSkipped ==
    [][(RefreshEnds /\ ~ListingThrows(fs, AudioRoot)) =>
          /\ log'.outcome # "aborted"
          /\ \A c \in FilePaths :
                (is_regular(fs, c) /\ Listed(fs, c)) => seen'[c].scan = scans]_vars

\* this step is processAudioFile or processVideoFile on c, left by an exception
FailsOn(c) ==
    /\ scanPc = "walk"
    /\ stack # <<>>
    /\ c \in stack[Len(stack)].pending
    /\ Len(stack') < Len(stack) \/ c \notin stack'[Len(stack)].pending
    /\ log' = [path |-> c, outcome |-> "exception"]

Orphans(rows, f) == {t \in rows : ~(exists(f, t.path) /\ is_regular(f, t.path))}

\* C20: removeMissingAudioFiles is done and committed when the walk starts:
\* from the step that calls refresh to the step that ends it, whether the
\* walk returns or is left by an exception, no Track of a missing file is
\* stored, and a walk that fails stores the Tracks the reconciliation left.
C20_ReconciledBeforeWalk ==
    [][/\ (scans' # scans \/ scanPc = "walk") => Orphans(tracks', fs') = {}
       /\ (scanPc = "walk" /\ log'.outcome = "aborted" /\ log # log')
             => tracks' = tracks]_vars

\* the only file that ever had a Track was deleted, a refresh removed its
\* Track, and the walk of that refresh was left by an exception
C20_Witness ==
    /\ scanPc = "idle"
    /\ log.outcome = "aborted"
    /\ nextTrackId > 1
    /\ tracks = {}
    /\ \E c \in FilePaths :
          /\ ~exists(fs, c)
          /\ seen[c].entry # NoEntry
          /\ processAudioFile(Store({}, <<>>, <<>>, <<>>, 1), c, seen[c].entry).outcome
                = "added"
          /\ \A o \in FilePaths \ {c} : seen[o].scan = 0

(***************************************************************************)
(* Properties of the Path rows of a video library                          *)
(***************************************************************************)
\* C21, as stated: every Path row with a parent has a parent that is a
\* registered Path row with isDirectory = true, and every Path row below the
\* watched video root has its parent set.
C21_PathTree ==
    \A r \in paths :
        /\ r.parent # "" => \E q \in paths : q.path = r.parent /\ q.isDirectory
        /\ r.path # AudioRoot => r.parent # ""

\* C27, as stated: the Path row obtained for a walked video directory is a
\* directory: the assertion of refreshVideoDirectory never fails, and no
\* directory is being listed whose Path row is not a directory.
C27_AssertionHolds ==
    /\ scanPc # "crashed"
    /\ \A i \in DOMAIN stack :
          stack[i].type = "Video" => PathByPath(paths, stack[i].dir).isDirectory

(***************************************************************************)
(* Properties of the change detection of processAudioFile                  *)
(***************************************************************************)
\* processAudioFile got as far as computeCrc
ChecksumComputed(outcome) == outcome # "skipLastWrite"

\* processAudioFile got as far as MetaData::Parser::parse
MetadataExtracted(outcome) == outcome \notin {"skipLastWrite", "skipChecksum"}

\* C22: for a file whose Track stores the file's last write time neither the
\* checksum is computed nor the metadata extracted; the checksum is computed
\* only when there is no Track or the time differs, the metadata extracted
\* only when there is no Track or both the time and the checksum differ.
C22_CheapFirst ==
    [][\A c \in FilePaths :
          VisitFile(c) =>
             LET track == getByPath(tracks, c)
                 sameTime == track # NoTrack /\ track.lastWriteTime = fs[c].mtime
                 sameSum == track # NoTrack
                                /\ track.checksum = computeCrc(fs[c].data)
             IN  /\ sameTime => (/\ ~ChecksumComputed(log'.outcome)
                                 /\ ~MetadataExtracted(log'.outcome))
                 /\ ChecksumComputed(log'.outcome) => (track = NoTrack \/ ~sameTime)
                 /\ MetadataExtracted(log'.outcome)
                       => (track = NoTrack \/ (~sameTime /\ ~sameSum))]_vars

\* a touched file with the contents its Track was made from was met: the
\* checksum was computed, the metadata not extracted, while the other file
\* was skipped on its time
C22_Witness ==
    \E c \in FilePaths :
        /\ log.path = c
        /\ ChecksumComputed(log.outcome)
        /\ ~MetadataExtracted(log.outcome)
        /\ getByPath(tracks, c) # NoTrack
        /\ getByPath(tracks, c).lastWriteTime # fs[c].mtime
        /\ getByPath(tracks, c).checksum = computeCrc(fs[c].data)
        /\ seen[c].entry.data = fs[c].data
        /\ \E o \in FilePaths \ {c} :
              /\ getByPath(tracks, o) # NoTrack
              /\ getByPath(tracks, o).lastWriteTime = fs[o].mtime
              /\ seen[o].scan = scans

(***************************************************************************)
(* Properties of what doDbMigration does to the scan version and the rows  *)
(***************************************************************************)
\* the steps that change no table the scanner fills
QuietSteps == {5, 7, 9, 10, 15, 18, 19, 20, 24, 28, 31}

\* this step of the model commits the migration step of version v
Commits(v) == applied' = Append(applied, v)

\* C23: the stored scanVersion never decreases; the commit of a step leaves
\* it as it was when the step is one of QuietSteps and raises it by exactly
\* one otherwise; a run that started on a version from 5 to 30 and returns
\* has a scanVersion greater than the one it started with.
C23_ScanVersionSignals ==
    [][/\ db'.scanVersion >= db.scanVersion
       /\ \A v \in Registered :
             Commits(v) => db'.scanVersion =
                              db.scanVersion + (IF v \in QuietSteps THEN 0 ELSE 1)
       /\ (/\ pc' = "returned"
           /\ StartedReadable'
           /\ startDb'.vinfo.version \in 5..30)
             => db'.scanVersion > startDb'.scanVersion]_vars

\* a run started on version 30 has returned: step 30 raised scanVersion by
\* one, step 31 left it
C23_Witness ==
    /\ pc = "returned"
    /\ StartedReadable
    /\ startDb.vinfo.version = 30
    /\ applied = <<30, 31>>
    /\ db.scanVersion = startDb.scanVersion + 1
    /\ db.vinfo.version = LMS_DATABASE_VERSION

\* the table the step of version v rebuilds: copied, dropped, renamed
Rebuilt(v) ==
    CASE v = 17 -> "release"
      [] v \in {19, 28} -> "user"
      [] v = 30 -> "track"

\* the tables the statements of the step of version v name
Named(v) ==
    {Steps(v)[i].t : i \in DOMAIN Steps(v)} \cup {Steps(v)[i].t2 : i \in DOMAIN Steps(v)}

\* C24: the commit of a rebuilding step (17, 19, 28, 30) leaves the rebuilt
\* table with as many rows as before, each with its id and with the values
\* of the columns the new table keeps; the commit of any step leaves the
\* rows of the tables it does not name as they were.
C24_RebuildKeepsRows ==
    [][\A v \in Registered :
          Commits(v) =>
             /\ v \in {17, 19, 28, 30} =>
                   LET old == db.tables[Rebuilt(v)]
                       new == db'.tables[Rebuilt(v)]
                   IN  /\ new.exists
                       /\ Cardinality(new.rows) = Cardinality(old.rows)
                       /\ \A r \in old.rows : \E n \in new.rows :
                             /\ n["id"] = r["id"]
                             /\ \A c \in Range(old.cols) \cap Range(new.cols) :
                                   n[c] = r[c]
             /\ \A t \in TableNames \ Named(v) :
                   db'.tables[t].rows = db.tables[t].rows]_vars

\* a run started on version 17 with rows in release, user and track has
\* returned: the four rebuilding steps were committed and the rows are there
C24_Witness ==
    /\ pc = "returned"
    /\ StartedReadable
    /\ startDb.vinfo.version = 17
    /\ Len(applied) = LMS_DATABASE_VERSION - 17
    /\ \A t \in {"release", "user", "track"} :
          /\ startDb.tables[t].rows # {}
          /\ Cardinality(db.tables[t].rows) = Cardinality(startDb.tables[t].rows)

(***************************************************************************)
(* Properties of the Track rows                                            *)
(***************************************************************************)
\* C25: no two Track rows have the same path; processAudioFile creates a row
\* only for a file that has none, and for a file that has one it leaves the
\* row with its identity and adds no row.
C25_OneTrackPerPath ==
    [][/\ \A t1, t2 \in tracks' : t1.path = t2.path => t1 = t2
       /\ \A c \in FilePaths :
             VisitFile(c) =>
                LET track == getByPath(tracks, c)
                    new == {t \in tracks' : t.id \notin {o.id : o \in tracks}}
                IN  IF track = NoTrack
                    THEN \A t \in new : t.path = c
                    ELSE /\ new = {}
                         /\ \A t \in tracks' : t.path = c => t.id = track.id]_vars

\* both files have their Track, and the changed one was updated in a later
\* scan: no third row was made
C25_Witness ==
    /\ log.outcome = "updated"
    /\ scans >= 2
    /\ Cardinality(tracks) = 2
    /\ nextTrackId = 3
    /\ getByPath(tracks, log.path) # NoTrack
    /\ getByPath(tracks, log.path).checksum = computeCrc(fs[log.path].data)
    /\ getByPath(tracks, log.path).lastWriteTime = fs[log.path].mtime

\* processAudioFile reported "Skipped" and returned
SkipVerdicts == {"skipLastWrite", "skipChecksum", "skipNoAudio"}

\* C26: a call of processAudioFile that skips the file on its time, on its
\* checksum or for want of an audio stream leaves every Track, Artist,
\* Release and Genre row as it was, the stored time and checksum included;
\* so a file once skipped on its checksum under a new time, met again as it
\* was then, is checksummed and skipped on its checksum again.
C26_SkipWritesNothing ==
    [][\A c \in FilePaths :
          VisitFile(c) =>
             /\ log'.outcome \in SkipVerdicts
                   => (UNCHANGED Rows /\ nextTrackId' = nextTrackId)
             /\ (/\ seen[c].scan > 0
                 /\ seen[c].entry = fs[c]
                 /\ getByPath(tracks, c) # NoTrack
                 /\ getByPath(tracks, c).lastWriteTime # fs[c].mtime
                 /\ getByPath(tracks, c).checksum = computeCrc(fs[c].data))
                   => /\ log'.outcome = "skipChecksum"
                      /\ ChecksumComputed(log'.outcome)]_vars

\* a touched file was skipped on its checksum by the second and by the third
\* scan: its Track still stores the old time
C26_Witness ==
    /\ scans = 3
    /\ scanPc = "idle"
    /\ changes = 1
    /\ \E c \in FilePaths :
          /\ log = [path |-> c, outcome |-> "skipChecksum"]
          /\ seen[c] = [entry |-> fs[c], scan |-> 3, version |-> seen[c].version]
          /\ getByPath(tracks, c).lastWriteTime = 1
          /\ fs[c].mtime = 2
          /\ Cardinality(tracks) = 2

\* the list l without its i-th element
Without(l, i) == SubSeq(l, 1, i - 1) \o SubSeq(l, i + 1, Len(l))

\* C28: a step removes the Track of a path only when the path does not
\* exist, is not a regular file or holds media of null duration; refresh
\* keeps the Track of every regular file, watched or not; unwatchDirectory
\* changes no row and takes the first entry equal to its argument off the
\* list, nothing when there is none.
C28_TrackRemovedOnlyWhenGone ==
    [][/\ \A t \in tracks :
             (\A n \in tracks' : n.path # t.path)
                => \/ ~exists(fs, t.path)
                   \/ ~is_regular(fs, t.path)
                   \/ Media(fs[t.path].data).probed = 0
       /\ scans' # scans
             => \A t \in tracks :
                   (exists(fs, t.path) /\ is_regular(fs, t.path)) => t \in tracks'
       /\ \A d \in WatchedDirectories :
             unwatchDirectory(d) =>
                /\ UNCHANGED <<Rows, nextTrackId, paths, videos>>
                /\ IF \E i \in DOMAIN directories : directories[i] = d
                   THEN \E i \in DOMAIN directories :
                           /\ directories[i] = d
                           /\ \A j \in 1..(i - 1) : directories[j] # d
                           /\ directories' = Without(directories, i)
                   ELSE directories' = directories]_vars

\* the directory was unwatched and refresh called again: the Tracks of its
\* files, which still exist, are all there, and no file was visited
C28_Witness ==
    /\ directories = <<>>
    /\ scanPc = "idle"
    /\ scans >= 2
    /\ log = NoLog
    /\ Cardinality(tracks) = 2
    /\ \A t \in tracks :
          /\ is_regular(fs, t.path)
          /\ seen[t.path].scan > 0
          /\ seen[t.path].scan < scans
====
